---- MODULE Spec2Model ----
(***************************************************************************)
(* Model of the mail backend: the Email, Label, AutoReply and User         *)
(* collections, the spam classifier, and the request handlers of           *)
(* routes/email.js (send, reply, forward, drafts, flags, labels,           *)
(* auto-reply configuration).                                              *)
(*                                                                         *)
(* A request handler is one action.  Its body is the handler's code run    *)
(* on a machine record m (the collections it writes, the events it causes, *)
(* and whether an exception is in flight); the faults of the collaborators *)
(* (a save that rejects, an emit that throws) are inputs of the request.   *)
(* Strings that the code cuts and joins (subject, body) are sequences of   *)
(* tokens, so that prefixing and quoting are real concatenations.          *)
(***************************************************************************)
EXTENDS Integers, Sequences, FiniteSets, TLC

VARIABLES
    users,        \* User collection: user id -> [email, isEmailVerified]
    emails,       \* Email collection: a set of message documents
    labels,       \* Label collection: a set of label documents
    autoReplies,  \* AutoReply collection: a set of configuration documents
    nextId,       \* the next ObjectId
    clock,        \* Date.now()
    last,         \* the request handled last: operation, inputs, response, events
    nreq,         \* number of fan-out requests handled so far
    nops,         \* number of mailbox requests (flags, labels, drafts) handled so far
    ens,          \* the two overlapping ensureSpamLabel calls of SpecEnsure
    cls,          \* the message under classification and the verdicts it got
    cfg,          \* the two overlapping POST /auto-reply requests of SpecConfig
    auth,         \* the credentials of each account: password hash, otp, otpExpires
    spent,        \* per account, the codes that authorised an operation since they were issued
    lab           \* the overlapping label requests of SpecLabelRace

vars == <<users, emails, labels, autoReplies, nextId, clock, last, nreq, nops, ens, cls, cfg, auth,
         spent, lab>>

-----------------------------------------------------------------------------
(* Bounds *)

MaxRequests == 2
MaxSends == 1
MaxOps == 2
MaxConfigs == 2

-----------------------------------------------------------------------------
(* Values *)

Blank == " "
NoUser == "nouser"
NoDoc == [id |-> 0]
NoLabel == 0
NoMessage == <<>>
NoClassification == [pc |-> "idle"]

UserIds == {"u1", "u2", "u3", "u4"}

\* Three users who set an email in their profile (which marks it verified) and
\* one who registered and set none.
Directory ==
    [u \in UserIds |->
        CASE u = "u1" -> [email |-> "a", isEmailVerified |-> TRUE]
          [] u = "u2" -> [email |-> "b", isEmailVerified |-> TRUE]
          [] u = "u3" -> [email |-> "c", isEmailVerified |-> TRUE]
          [] OTHER -> [email |-> "", isEmailVerified |-> FALSE]]

\* JavaScript's undefined and null, as the value of a field or of a request
\* parameter that holds a string otherwise.
Undefined == "undefined"
Null == "null"

\* The value of a Date field: absent, null, or a time.
NoDate == [kind |-> "undefined", at |-> 0]
NullDate == [kind |-> "null", at |-> 0]
DateAt(t) == [kind |-> "date", at |-> t]

\* A phone number and a password are sequences of characters.
Phone(d) == [i \in 1..10 |-> IF i = 10 THEN d ELSE "0"]

PhoneOf(u) ==
    CASE u = "u1" -> Phone("1")
      [] u = "u2" -> Phone("2")
      [] u = "u3" -> Phone("3")
      [] OTHER -> Phone("4")

\* bcrypt.hash(password, 10): a salted hash.
Hash(password, salt) == [alg |-> "bcrypt", text |-> password, salt |-> salt]

RegisteredPassword == <<"O", "l", "d", "p", "a", "s", "s", "1", "!">>

\* new User({ phone, password: hashedPassword }): twoFactorEnabled defaults to
\* false, otp and otpExpires are absent.
NewAccount(phone, password) ==
    [phone |-> phone, password |-> password, twoFactorEnabled |-> FALSE,
     otp |-> Undefined, otpExpires |-> NoDate]

\* The accounts after registration: a password, no otp, no otpExpires.
Accounts ==
    [u \in UserIds |-> NewAccount(PhoneOf(u), Hash(RegisteredPassword, 0))]

AutoReplyPrefix == "Auto Reply: "
RePrefix == "Re: "
FwdPrefix == "Fwd: "
ReplySeparator == "<br><br>--- Original Message ---<br>"
ForwardSeparator == "<br><br>--- Forwarded Message ---<br>"
DefaultAutoReplyMessage ==
    <<"Thank you for your email. I am currently unavailable and will respond soon.">>

Range(s) == {s[i] : i \in DOMAIN s}

Min(S) == CHOOSE x \in S : \A y \in S : x <= y

-----------------------------------------------------------------------------
(* Spam classifier *)

MiB == 1024 * 1024

spamKeywords ==
    {"win a prize", "free offer", "click here", "urgent", "limited time offer",
     "make money fast", "lottery", "guaranteed", "viagra", "cheap pills"}

\* String.prototype.toLowerCase on a token.
toLowerCase(t) ==
    CASE t = "URGENT" -> "urgent"
      [] t = "Limited Time Offer" -> "limited time offer"
      [] t = "HTTP://L" -> "http://l"
      [] t = "Insurgents" -> "insurgents"
      [] t = "PDF" -> "pdf"
      [] t = "EXE" -> "exe"
      [] OTHER -> t

LowerSeq(s) == [i \in DOMAIN s |-> toLowerCase(s[i])]

\* A token that /https?:\/\/[^\s<>"']+/ matches (after lower-casing).
IsUrl(t) == t \in {"http://l", "https://l"}

\* filename.split('.').pop(): a file name is a sequence of dot-separated parts.
Extension(filename) == filename[Len(filename)]

AllowedExtensions == {"jpg", "jpeg", "png", "pdf"}

\* email.attachments.some(...): stops at the first suspicious attachment, and
\* throws on an attachment whose filename is undefined (<<>>) unless its size
\* alone already decided.
RECURSIVE SomeSuspicious(_, _)
SomeSuspicious(atts, i) ==
    IF i > Len(atts) THEN "false"
    ELSE IF atts[i].size > 5 * MiB THEN "true"
    ELSE IF atts[i].filename = <<>> THEN "throw"
    ELSE IF toLowerCase(Extension(atts[i].filename)) \notin AllowedExtensions THEN "true"
    ELSE SomeSuspicious(atts, i + 1)

\* String.prototype.includes(keyword) on a lower-cased token: the token is the
\* keyword or has it inside.
Includes(t, keyword) ==
    \/ t = keyword
    \/ t = "insurgents" /\ keyword = "urgent"

\* Mutant: the reputation rule looks at the whole directory instead of the
\* sender.
detectSpamTryAnyUnverified(email, sender, directory, dbFault) ==
    LET subject == LowerSeq(email.subject)
        body == LowerSeq(email.body)
        hasSpamKeyword ==
            \E k \in spamKeywords :
                \/ \E i \in DOMAIN subject : Includes(subject[i], k)
                \/ \E i \in DOMAIN body : Includes(body[i], k)
        unverified == {u \in DOMAIN directory : ~directory[u].isEmailVerified}
    IN  IF hasSpamKeyword THEN "true"
        ELSE IF Len(SelectSeq(body, IsUrl)) > 5 THEN "true"
        ELSE IF dbFault THEN "throw"
        ELSE IF unverified # {} THEN "true"
        ELSE IF Len(email.recipients) > 10 THEN "true"
        ELSE IF Len(email.attachments) > 0
        THEN SomeSuspicious(email.attachments, 1)
        ELSE "false"

\* Mutant: five links are already too many.
detectSpamTryFiveLinks(email, sender, directory, dbFault) ==
    LET subject == LowerSeq(email.subject)
        body == LowerSeq(email.body)
        hasSpamKeyword ==
            \E k \in spamKeywords :
                \/ \E i \in DOMAIN subject : Includes(subject[i], k)
                \/ \E i \in DOMAIN body : Includes(body[i], k)
        senderUser ==
            {u \in DOMAIN directory :
                directory[u].email = sender /\ directory[u].isEmailVerified}
    IN  IF hasSpamKeyword THEN "true"
        ELSE IF Len(SelectSeq(body, IsUrl)) >= 5 THEN "true"
        ELSE IF dbFault THEN "throw"
        ELSE IF senderUser = {} THEN "true"
        ELSE IF Len(email.recipients) > 10 THEN "true"
        ELSE IF Len(email.attachments) > 0
        THEN SomeSuspicious(email.attachments, 1)
        ELSE "false"

\* The try block of detectSpam(email, sender): "true" or "false" as returned,
\* "throw" when an exception leaves it.  dbFault is a User.findOne that rejects.
detectSpamTry(email, sender, directory, dbFault) ==
    LET subject == LowerSeq(email.subject)
        body == LowerSeq(email.body)
        hasSpamKeyword ==
            \E k \in spamKeywords :
                \/ \E i \in DOMAIN subject : Includes(subject[i], k)
                \/ \E i \in DOMAIN body : Includes(body[i], k)
        links == SelectSeq(body, IsUrl)
        senderUser ==
            {u \in DOMAIN directory :
                directory[u].email = sender /\ directory[u].isEmailVerified}
    IN  IF hasSpamKeyword THEN "true"
        ELSE IF Len(links) > 5 THEN "true"
        ELSE IF dbFault THEN "throw"
        ELSE IF senderUser = {} THEN "true"
        ELSE IF Len(email.recipients) > 10 THEN "true"
        ELSE IF Len(email.attachments) > 0
        THEN SomeSuspicious(email.attachments, 1)
        ELSE "false"

\* Mutant: the catch returns true.
detectSpamFailClosed(email, sender, directory, dbFault) ==
    detectSpamTry(email, sender, directory, dbFault) # "false"

\* detectSpam(email, sender): the catch returns false.
detectSpam(email, sender, directory, dbFault) ==
    detectSpamTry(email, sender, directory, dbFault) = "true"

-----------------------------------------------------------------------------
(* The machine a handler runs on *)

\* The state a handler starts from; the faults are the request's inputs:
\* saveFault = k makes the k-th Email save of the request reject, emitFault = k
\* makes its k-th emit throw (0: none).
Machine(rq) ==
    [emails |-> emails, labels |-> labels, autoReplies |-> autoReplies,
     nextId |-> nextId, log |-> <<>>,
     thrown |-> FALSE, nsave |-> 0, nemit |-> 0,
     saveFault |-> rq.saveFault, emitFault |-> rq.emitFault, ret |-> NoLabel,
     response |-> [status |-> 0, text |-> ""]]

\* The middleware ensureEmailVerified lets the request through.
EmailVerified(rq) == users[rq.user].email # "" /\ users[rq.user].isEmailVerified

NotVerifiedText == "Verified email required to perform this action"

\* res.json(...) / res.status(code).json(...).
Respond(m, status, text) == [m EXCEPT !.response = [status |-> status, text |-> text]]

\* Schema defaults of an Email document.
EmailDefaults(now) ==
    [cc |-> <<>>, bcc |-> <<>>, attachments |-> <<>>, folder |-> "inbox",
     labels |-> {}, isRead |-> FALSE, isStarred |-> FALSE, isSpam |-> FALSE,
     sentAt |-> now]

\* new Email({...}).
NewEmail(fields, id, now) == ([id |-> id] @@ fields) @@ EmailDefaults(now)

\* The required validators of the schema: a required String must be non-empty,
\* and recipients holds only non-empty strings.
ValidEmailDoc(doc) ==
    /\ doc.sender # ""
    /\ doc.subject # <<>>
    /\ doc.body # <<>>
    /\ \A i \in DOMAIN doc.recipients : doc.recipients[i] # ""

\* Mutant: a rejected save is recorded and the handler goes on.
SaveDocSwallowed(m, doc) ==
    IF m.thrown THEN m
    ELSE IF ~ValidEmailDoc(doc) \/ m.nsave + 1 = m.saveFault
    THEN [m EXCEPT !.nsave = @ + 1,
                   !.log = Append(@, [ev |-> "savefail", doc |-> doc])]
    ELSE [m EXCEPT !.emails = @ \cup {doc}, !.nsave = @ + 1,
                   !.log = Append(@, [ev |-> "save", doc |-> doc])]

\* await doc.save(): rejects on a validation error or on a persistence fault;
\* otherwise the document is stored.
SaveDoc(m, doc) ==
    IF m.thrown THEN m
    ELSE IF ~ValidEmailDoc(doc) \/ m.nsave + 1 = m.saveFault
    THEN [m EXCEPT !.thrown = TRUE, !.nsave = @ + 1,
                   !.log = Append(@, [ev |-> "savefail", doc |-> doc])]
    ELSE [m EXCEPT !.emails = @ \cup {doc}, !.nsave = @ + 1,
                   !.log = Append(@, [ev |-> "save", doc |-> doc])]

\* new Email(fields), which draws the document's id, followed by its save.
SaveNew(m, fields, now) ==
    IF m.thrown THEN m
    ELSE SaveDoc([m EXCEPT !.nextId = @ + 1], NewEmail(fields, m.nextId, now))

\* io.to(channel).emit('newEmail', payload) inside try/catch: a fault of the
\* sink is logged and the handler goes on.
EmitCaught(m, channel, payload) ==
    IF m.thrown THEN m
    ELSE IF m.nemit + 1 = m.emitFault
    THEN [m EXCEPT !.nemit = @ + 1,
                   !.log = Append(@, [ev |-> "emiterror", channel |-> channel])]
    ELSE [m EXCEPT !.nemit = @ + 1,
                   !.log = Append(@, [ev |-> "emit", channel |-> channel,
                                      payload |-> payload])]

\* io.to(channel).emit('newEmail', payload) outside any try/catch of its own:
\* a fault of the sink propagates to the handler's catch.
EmitUncaught(m, channel, payload) ==
    IF m.thrown THEN m
    ELSE IF m.nemit + 1 = m.emitFault
    THEN [m EXCEPT !.nemit = @ + 1, !.thrown = TRUE,
                   !.log = Append(@, [ev |-> "emiterror", channel |-> channel])]
    ELSE [m EXCEPT !.nemit = @ + 1,
                   !.log = Append(@, [ev |-> "emit", channel |-> channel,
                                      payload |-> payload])]

-----------------------------------------------------------------------------
(* Label registry *)

SpamLabelsOf(lbls, userId) ==
    {l \in lbls : l.userId = userId /\ l.name = "Spam" /\ l.isSystemLabel}

\* Label.findOne({ userId, name: 'Spam', isSystemLabel: true }): the id of the
\* oldest matching document, or NoLabel.
FindSpamLabel(lbls, userId) ==
    IF SpamLabelsOf(lbls, userId) = {} THEN NoLabel
    ELSE Min({l.id : l \in SpamLabelsOf(lbls, userId)})

NewSpamLabel(id, userId) ==
    [id |-> id, userId |-> userId, name |-> "Spam", isSystemLabel |-> TRUE]

\* Mutant: a Spam label is created at every call.
ensureSpamLabelAlwaysNew(m, userId) ==
    IF m.thrown THEN m
    ELSE [m EXCEPT !.labels = @ \cup {NewSpamLabel(m.nextId, userId)},
                   !.nextId = @ + 1, !.ret = m.nextId]

\* Label.ensureSpamLabel(userId) run without another request in between; the
\* label's id is left in m.ret.
ensureSpamLabel(m, userId) ==
    IF m.thrown THEN m
    ELSE IF FindSpamLabel(m.labels, userId) = NoLabel
    THEN [m EXCEPT !.labels = @ \cup {NewSpamLabel(m.nextId, userId)},
                   !.nextId = @ + 1, !.ret = m.nextId]
    ELSE [m EXCEPT !.ret = FindSpamLabel(m.labels, userId)]

-----------------------------------------------------------------------------
(* Directory and auto-reply registry *)

\* User.find({ email: { $in: addrs }, isEmailVerified: true }).
FindVerified(directory, addrs) ==
    {u \in DOMAIN directory :
        directory[u].email \in addrs /\ directory[u].isEmailVerified}

\* recipientUsers.find(u => u.email === addr).
FindUser(directory, found, addr) ==
    IF \E u \in found : directory[u].email = addr
    THEN CHOOSE u \in found : directory[u].email = addr
    ELSE NoUser

\* AutoReply.findOne({ userId }): the oldest matching document, or NoDoc.
FindAutoReply(ars, userId) ==
    IF \E r \in ars : r.userId = userId
    THEN CHOOSE r \in ars :
            r.userId = userId /\ \A q \in ars : q.userId = userId => r.id <= q.id
    ELSE NoDoc

-----------------------------------------------------------------------------
(* POST /send *)

\* typeof email === 'string' && email.trim(): a blank address is dropped.
Trim(e) == IF e = Blank THEN "" ELSE e

KeepAddress(e) == Trim(e) # ""

FilterAddresses(list) == SelectSeq(list, KeepAddress)

\* Mutant: the auto-reply is sent like any message, so the original sender's
\* own auto-reply answers it.
AutoReplyBranchEcho(m, c, recipient, recipientUser) ==
    LET autoReply == FindAutoReply(c.autoReplies, recipientUser)
        back == FindAutoReply(c.autoReplies,
                              FindUser(c.directory, DOMAIN c.directory, c.sender))
        subject == <<AutoReplyPrefix>> \o c.subject
        m1 == SaveNew(m, [sender |-> recipient, recipients |-> <<c.sender>>,
                          subject |-> subject, body |-> autoReply.message,
                          folder |-> "sent"], c.now)
        m2 == SaveNew(m1, [sender |-> recipient, recipients |-> <<c.sender>>,
                           subject |-> subject, body |-> autoReply.message,
                           folder |-> "inbox"], c.now)
        m3 == EmitCaught(m2, c.sender,
                         [sender |-> recipient, subject |-> subject, sentAt |-> c.now])
        m4 == IF back # NoDoc /\ back.enabled
              THEN SaveNew(m3, [sender |-> c.sender, recipients |-> <<recipient>>,
                                subject |-> <<AutoReplyPrefix>> \o subject,
                                body |-> back.message, folder |-> "sent"], c.now)
              ELSE m3
    IN  IF m.thrown \/ c.isSpam \/ recipientUser = NoUser THEN m
        ELSE IF autoReply = NoDoc THEN m
        ELSE IF autoReply.enabled /\ c.directory[recipientUser].isEmailVerified THEN m4
        ELSE m

\* Mutant: the auto-reply carries the schema's default text.
AutoReplyBranchDefaultText(m, c, recipient, recipientUser) ==
    LET autoReply == FindAutoReply(c.autoReplies, recipientUser)
        subject == <<AutoReplyPrefix>> \o c.subject
        m1 == SaveNew(m, [sender |-> recipient, recipients |-> <<c.sender>>,
                          subject |-> subject, body |-> DefaultAutoReplyMessage,
                          folder |-> "sent"], c.now)
        m2 == SaveNew(m1, [sender |-> recipient, recipients |-> <<c.sender>>,
                           subject |-> subject, body |-> DefaultAutoReplyMessage,
                           folder |-> "inbox"], c.now)
        m3 == EmitCaught(m2, c.sender,
                         [sender |-> recipient, subject |-> subject, sentAt |-> c.now])
    IN  IF m.thrown \/ c.isSpam \/ recipientUser = NoUser THEN m
        ELSE IF autoReply = NoDoc THEN m
        ELSE IF autoReply.enabled /\ c.directory[recipientUser].isEmailVerified THEN m3
        ELSE m

\* The auto-reply branch of the recipients loop.
AutoReplyBranch(m, c, recipient, recipientUser) ==
    LET autoReply == FindAutoReply(c.autoReplies, recipientUser)
        subject == <<AutoReplyPrefix>> \o c.subject
        m1 == SaveNew(m, [sender |-> recipient, recipients |-> <<c.sender>>,
                          subject |-> subject, body |-> autoReply.message,
                          folder |-> "sent"], c.now)
        m2 == SaveNew(m1, [sender |-> recipient, recipients |-> <<c.sender>>,
                           subject |-> subject, body |-> autoReply.message,
                           folder |-> "inbox"], c.now)
        m3 == EmitCaught(m2, c.sender,
                         [sender |-> recipient, subject |-> subject, sentAt |-> c.now])
    IN  IF m.thrown \/ c.isSpam \/ recipientUser = NoUser THEN m
        ELSE IF autoReply = NoDoc THEN m
        ELSE IF autoReply.enabled /\ c.directory[recipientUser].isEmailVerified THEN m3
        ELSE m

\* Mutant: the delivered copy does not keep the cc and bcc lists.
DeliverCopyBare(m, c, addr) ==
    LET m2 == SaveNew(m, [sender |-> c.sender, recipients |-> <<addr>>,
                          subject |-> c.subject, body |-> c.body,
                          attachments |-> c.attachments,
                          folder |-> IF c.isSpam THEN "spam" ELSE "inbox",
                          sentAt |-> c.sentAt, isSpam |-> c.isSpam], c.now)
    IN  IF m.thrown THEN m
        ELSE EmitCaught(m2, addr,
                        [sender |-> c.sender, subject |-> c.subject,
                         sentAt |-> c.sentAt, isSpam |-> c.isSpam])

\* Mutant: a spam copy is labelled and flagged but stays in the inbox.
DeliverCopyInbox(m, c, addr) ==
    LET recipientUser == FindUser(c.directory, c.recipientUsers, addr)
        m1 == IF c.isSpam /\ recipientUser # NoUser
              THEN ensureSpamLabel(m, recipientUser)
              ELSE [m EXCEPT !.ret = NoLabel]
        spamLabel == m1.ret
        m2 == SaveNew(m1, [sender |-> c.sender, recipients |-> <<addr>>,
                           cc |-> c.cc, bcc |-> c.bcc, subject |-> c.subject,
                           body |-> c.body, attachments |-> c.attachments,
                           folder |-> "inbox",
                           sentAt |-> c.sentAt, isSpam |-> c.isSpam,
                           labels |-> IF c.isSpam /\ spamLabel # NoLabel
                                      THEN {spamLabel} ELSE {}], c.now)
    IN  IF m.thrown THEN m
        ELSE EmitCaught(m2, addr,
                        [sender |-> c.sender, subject |-> c.subject,
                         sentAt |-> c.sentAt, isSpam |-> c.isSpam])

\* The copy stored for one address of recipients, cc or bcc, and its event.
DeliverCopy(m, c, addr) ==
    LET recipientUser == FindUser(c.directory, c.recipientUsers, addr)
        m1 == IF c.isSpam /\ recipientUser # NoUser
              THEN ensureSpamLabel(m, recipientUser)
              ELSE [m EXCEPT !.ret = NoLabel]
        spamLabel == m1.ret
        m2 == SaveNew(m1, [sender |-> c.sender, recipients |-> <<addr>>,
                           cc |-> c.cc, bcc |-> c.bcc, subject |-> c.subject,
                           body |-> c.body, attachments |-> c.attachments,
                           folder |-> IF c.isSpam THEN "spam" ELSE "inbox",
                           sentAt |-> c.sentAt, isSpam |-> c.isSpam,
                           labels |-> IF c.isSpam /\ spamLabel # NoLabel
                                      THEN {spamLabel} ELSE {}], c.now)
    IN  IF m.thrown THEN m
        ELSE EmitCaught(m2, addr,
                        [sender |-> c.sender, subject |-> c.subject,
                         sentAt |-> c.sentAt, isSpam |-> c.isSpam])

\* One iteration of for (const recipient of recipients).
DeliverRecipient(m, c, recipient) ==
    AutoReplyBranch(DeliverCopy(m, c, recipient), c, recipient,
                    FindUser(c.directory, c.recipientUsers, recipient))

\* Mutant: the cc loop runs the auto-reply branch too.
DeliverCcAutoReply(m, c, ccEmail) == DeliverRecipient(m, c, ccEmail)

\* Mutant: an address listed in cc that already got its copy gets no second one.
DeliverCcOnce(m, c, ccEmail) ==
    IF ccEmail \in Range(c.recipients) THEN m ELSE DeliverCopy(m, c, ccEmail)

\* One iteration of for (const ccEmail of cc).
DeliverCc(m, c, ccEmail) == DeliverCopy(m, c, ccEmail)

\* Mutant: the bcc loop stores nothing.
DeliverBccNothing(m, c, bccEmail) == m

\* One iteration of for (const bccEmail of bcc).
DeliverBcc(m, c, bccEmail) == DeliverCopy(m, c, bccEmail)

RECURSIVE RecipientsLoop(_, _, _)
RecipientsLoop(m, c, i) ==
    IF i > Len(c.recipients) THEN m
    ELSE RecipientsLoop(DeliverRecipient(m, c, c.recipients[i]), c, i + 1)

RECURSIVE CcLoop(_, _, _)
CcLoop(m, c, i) ==
    IF i > Len(c.cc) THEN m
    ELSE CcLoop(DeliverCc(m, c, c.cc[i]), c, i + 1)

RECURSIVE BccLoop(_, _, _)
BccLoop(m, c, i) ==
    IF i > Len(c.bcc) THEN m
    ELSE BccLoop(DeliverBcc(m, c, c.bcc[i]), c, i + 1)

\* await detectSpam(sentEmail, req.user.email), recorded as an event.
Classify(m, verdict) ==
    IF m.thrown THEN m
    ELSE [m EXCEPT !.log = Append(@, [ev |-> "classify", verdict |-> verdict])]

\* for (const file of req.files) { await upload_stream(...) }: the files go to
\* the attachment store one after the other; uploadFault = k makes the k-th
\* upload of the request reject (0: none), which leaves the handler's try block.
RECURSIVE UploadAll(_, _, _, _)
UploadAll(m, files, uploadFault, i) ==
    IF i > Len(files) THEN m
    ELSE IF i = uploadFault
    THEN [m EXCEPT !.thrown = TRUE,
                   !.log = Append(@, [ev |-> "uploaderror", file |-> files[i].filename])]
    ELSE UploadAll([m EXCEPT !.log = Append(@, [ev |-> "upload",
                                                 file |-> files[i].filename])],
                   files, uploadFault, i + 1)

\* The try block of the handler once the address lists are validated: the
\* sender's copy, the verdict, the three loops, the response.
SendFanOut(m, rq, recipients, cc, bcc, recipientUsers) ==
    LET sender == users[rq.user].email
        m1 == SaveNew(m, [sender |-> sender, recipients |-> recipients, cc |-> cc,
                          bcc |-> bcc, subject |-> rq.subject, body |-> rq.body,
                          attachments |-> rq.files, folder |-> "sent",
                          sentAt |-> clock], clock)
        sentEmail == NewEmail([sender |-> sender, recipients |-> recipients, cc |-> cc,
                               bcc |-> bcc, subject |-> rq.subject, body |-> rq.body,
                               attachments |-> rq.files, folder |-> "sent",
                               sentAt |-> clock], m.nextId, clock)
        isSpam == detectSpam(sentEmail, sender, users, rq.dbFault)
        m2 == Classify(m1, isSpam)
        c == [sender |-> sender, recipients |-> recipients, cc |-> cc, bcc |-> bcc,
              subject |-> rq.subject, body |-> rq.body, attachments |-> rq.files,
              isSpam |-> isSpam, sentAt |-> clock, now |-> clock,
              directory |-> users, recipientUsers |-> recipientUsers,
              autoReplies |-> autoReplies]
        m3 == BccLoop(CcLoop(RecipientsLoop(m2, c, 1), c, 1), c, 1)
    IN  IF m3.thrown THEN Respond(m3, 500, "Server error")
        ELSE Respond(m3, 200, "Email sent successfully")

\* Mutant: the bcc list is not checked against the directory.
HandleSendBccUnchecked(rq) ==
    LET m == Machine(rq)
        recipients == FilterAddresses(rq.recipients)
        cc == FilterAddresses(rq.cc)
        bcc == FilterAddresses(rq.bcc)
        allEmails == Range(recipients) \cup Range(cc) \cup Range(bcc)
        recipientUsers == FindVerified(users, allEmails)
        validEmails == {users[u].email : u \in recipientUsers}
    IN  IF ~EmailVerified(rq) THEN Respond(m, 400, NotVerifiedText)
        ELSE IF Len(rq.recipients) = 0 \/ rq.subject = <<>> \/ rq.body = <<>>
        THEN Respond(m, 400, "Recipients (array), subject (string), and body (string) are required")
        ELSE IF Len(recipients) = 0
        THEN Respond(m, 400, "At least one valid recipient is required")
        ELSE IF ~(\A i \in DOMAIN recipients : recipients[i] \in validEmails)
        THEN Respond(m, 400, "Some recipients not found or unverified")
        ELSE IF Len(cc) > 0 /\ ~(\A i \in DOMAIN cc : cc[i] \in validEmails)
        THEN Respond(m, 400, "Some CC recipients not found or unverified")
        ELSE SendFanOut(m, rq, recipients, cc, bcc, recipientUsers)

\* Mutant: a failed upload is dropped and the send goes on without the file.
HandleSendUploadSwallowed(rq) ==
    LET m == Machine(rq)
        recipients == FilterAddresses(rq.recipients)
        cc == FilterAddresses(rq.cc)
        bcc == FilterAddresses(rq.bcc)
        allEmails == Range(recipients) \cup Range(cc) \cup Range(bcc)
        recipientUsers == FindVerified(users, allEmails)
        validEmails == {users[u].email : u \in recipientUsers}
    IN  IF ~EmailVerified(rq) THEN Respond(m, 400, NotVerifiedText)
        ELSE IF Len(rq.recipients) = 0 \/ rq.subject = <<>> \/ rq.body = <<>>
        THEN Respond(m, 400, "Recipients (array), subject (string), and body (string) are required")
        ELSE IF Len(recipients) = 0
        THEN Respond(m, 400, "At least one valid recipient is required")
        ELSE IF ~(\A i \in DOMAIN recipients : recipients[i] \in validEmails)
        THEN Respond(m, 400, "Some recipients not found or unverified")
        ELSE IF Len(cc) > 0 /\ ~(\A i \in DOMAIN cc : cc[i] \in validEmails)
        THEN Respond(m, 400, "Some CC recipients not found or unverified")
        ELSE IF Len(bcc) > 0 /\ ~(\A i \in DOMAIN bcc : bcc[i] \in validEmails)
        THEN Respond(m, 400, "Some BCC recipients not found or unverified")
        ELSE SendFanOut([UploadAll(m, rq.files, rq.uploadFault, 1) EXCEPT !.thrown = FALSE],
                        rq, recipients, cc, bcc, recipientUsers)

\* router.post('/send', ...): input validation, then the fan-out.
HandleSend(rq) ==
    LET m == Machine(rq)
        recipients == FilterAddresses(rq.recipients)
        cc == FilterAddresses(rq.cc)
        bcc == FilterAddresses(rq.bcc)
        allEmails == Range(recipients) \cup Range(cc) \cup Range(bcc)
        recipientUsers == FindVerified(users, allEmails)
        validEmails == {users[u].email : u \in recipientUsers}
    IN  IF ~EmailVerified(rq) THEN Respond(m, 400, NotVerifiedText)
        ELSE IF Len(rq.recipients) = 0 \/ rq.subject = <<>> \/ rq.body = <<>>
        THEN Respond(m, 400, "Recipients (array), subject (string), and body (string) are required")
        ELSE IF Len(recipients) = 0
        THEN Respond(m, 400, "At least one valid recipient is required")
        ELSE IF ~(\A i \in DOMAIN recipients : recipients[i] \in validEmails)
        THEN Respond(m, 400, "Some recipients not found or unverified")
        ELSE IF Len(cc) > 0 /\ ~(\A i \in DOMAIN cc : cc[i] \in validEmails)
        THEN Respond(m, 400, "Some CC recipients not found or unverified")
        ELSE IF Len(bcc) > 0 /\ ~(\A i \in DOMAIN bcc : bcc[i] \in validEmails)
        THEN Respond(m, 400, "Some BCC recipients not found or unverified")
        ELSE IF UploadAll(m, rq.files, rq.uploadFault, 1).thrown
        THEN Respond(UploadAll(m, rq.files, rq.uploadFault, 1), 500, "Server error")
        ELSE SendFanOut(UploadAll(m, rq.files, rq.uploadFault, 1), rq, recipients, cc,
                        bcc, recipientUsers)

-----------------------------------------------------------------------------
(* POST /reply/:emailId and POST /forward/:emailId *)

\* Email.findById(id).
FindEmail(coll, id) ==
    IF \E e \in coll : e.id = id THEN CHOOSE e \in coll : e.id = id ELSE NoDoc

\* Mutant: the recipient's copy is saved before the sender's copy.
ReplyFanOutInboxFirst(m, rq, originalEmail, recipientUser) ==
    LET sender == users[rq.user].email
        subject == <<RePrefix>> \o originalEmail.subject
        body == (rq.body \o <<ReplySeparator>>) \o originalEmail.body
        replyEmail == NewEmail([sender |-> sender,
                                recipients |-> <<originalEmail.sender>>,
                                subject |-> subject, body |-> body,
                                attachments |-> rq.files, folder |-> "sent"],
                               m.nextId, clock)
        isSpam == detectSpam(replyEmail, sender, users, rq.dbFault)
        m1 == Classify([m EXCEPT !.nextId = @ + 1], isSpam)
        m2 == IF isSpam THEN ensureSpamLabel(m1, recipientUser)
              ELSE [m1 EXCEPT !.ret = NoLabel]
        spamLabel == m2.ret
        m3 == SaveNew(m2, [sender |-> sender,
                           recipients |-> <<originalEmail.sender>>,
                           subject |-> subject, body |-> body,
                           attachments |-> rq.files,
                           folder |-> IF isSpam THEN "spam" ELSE "inbox",
                           isSpam |-> isSpam,
                           labels |-> IF isSpam /\ spamLabel # NoLabel
                                      THEN {spamLabel} ELSE {}], clock)
        m4 == SaveDoc(m3, replyEmail)
        m5 == EmitUncaught(m4, originalEmail.sender,
                           [sender |-> sender, subject |-> subject,
                            sentAt |-> clock, isSpam |-> isSpam])
    IN  IF m5.thrown THEN Respond(m5, 500, "Server error")
        ELSE Respond(m5, 200, "Reply sent successfully")

\* Mutant: a subject that already starts with 'Re: ' gets no second prefix.
ReplyFanOutOneRe(m, rq, originalEmail, recipientUser) ==
    LET sender == users[rq.user].email
        subject == IF originalEmail.subject[1] = RePrefix THEN originalEmail.subject
                   ELSE <<RePrefix>> \o originalEmail.subject
        body == (rq.body \o <<ReplySeparator>>) \o originalEmail.body
        replyEmail == NewEmail([sender |-> sender,
                                recipients |-> <<originalEmail.sender>>,
                                subject |-> subject, body |-> body,
                                attachments |-> rq.files, folder |-> "sent"],
                               m.nextId, clock)
        isSpam == detectSpam(replyEmail, sender, users, rq.dbFault)
        m1 == Classify([m EXCEPT !.nextId = @ + 1], isSpam)
        m2 == IF isSpam THEN ensureSpamLabel(m1, recipientUser)
              ELSE [m1 EXCEPT !.ret = NoLabel]
        spamLabel == m2.ret
        m3 == SaveDoc(m2, replyEmail)
        m4 == SaveNew(m3, [sender |-> sender,
                           recipients |-> <<originalEmail.sender>>,
                           subject |-> subject, body |-> body,
                           attachments |-> rq.files,
                           folder |-> IF isSpam THEN "spam" ELSE "inbox",
                           isSpam |-> isSpam,
                           labels |-> IF isSpam /\ spamLabel # NoLabel
                                      THEN {spamLabel} ELSE {}], clock)
        m5 == EmitUncaught(m4, originalEmail.sender,
                           [sender |-> sender, subject |-> subject,
                            sentAt |-> clock, isSpam |-> isSpam])
    IN  IF m5.thrown THEN Respond(m5, 500, "Server error")
        ELSE Respond(m5, 200, "Reply sent successfully")

\* The try block of the reply handler once the original and its sender are
\* found: classification, the sender's copy, the recipient's copy, the event.
ReplyFanOut(m, rq, originalEmail, recipientUser) ==
    LET sender == users[rq.user].email
        subject == <<RePrefix>> \o originalEmail.subject
        body == (rq.body \o <<ReplySeparator>>) \o originalEmail.body
        replyEmail == NewEmail([sender |-> sender,
                                recipients |-> <<originalEmail.sender>>,
                                subject |-> subject, body |-> body,
                                attachments |-> rq.files, folder |-> "sent"],
                               m.nextId, clock)
        isSpam == detectSpam(replyEmail, sender, users, rq.dbFault)
        m1 == Classify([m EXCEPT !.nextId = @ + 1], isSpam)
        m2 == IF isSpam THEN ensureSpamLabel(m1, recipientUser)
              ELSE [m1 EXCEPT !.ret = NoLabel]
        spamLabel == m2.ret
        m3 == SaveDoc(m2, replyEmail)
        m4 == SaveNew(m3, [sender |-> sender,
                           recipients |-> <<originalEmail.sender>>,
                           subject |-> subject, body |-> body,
                           attachments |-> rq.files,
                           folder |-> IF isSpam THEN "spam" ELSE "inbox",
                           isSpam |-> isSpam,
                           labels |-> IF isSpam /\ spamLabel # NoLabel
                                      THEN {spamLabel} ELSE {}], clock)
        m5 == EmitUncaught(m4, originalEmail.sender,
                           [sender |-> sender, subject |-> subject,
                            sentAt |-> clock, isSpam |-> isSpam])
    IN  IF m5.thrown THEN Respond(m5, 500, "Server error")
        ELSE Respond(m5, 200, "Reply sent successfully")

\* Mutant: the reply handler goes on when the original sender is not found.
HandleReplyUnchecked(rq) ==
    LET m == Machine(rq)
        originalEmail == FindEmail(emails, rq.emailId)
        found == IF originalEmail = NoDoc THEN {}
                 ELSE FindVerified(users, {originalEmail.sender})
    IN  IF ~EmailVerified(rq) THEN Respond(m, 400, NotVerifiedText)
        ELSE IF originalEmail = NoDoc THEN Respond(m, 404, "Email not found")
        ELSE ReplyFanOut(m, rq, originalEmail,
                         IF found = {} THEN NoUser ELSE CHOOSE u \in found : TRUE)

\* router.post('/reply/:emailId', ...).
HandleReply(rq) ==
    LET m == Machine(rq)
        originalEmail == FindEmail(emails, rq.emailId)
        found == IF originalEmail = NoDoc THEN {}
                 ELSE FindVerified(users, {originalEmail.sender})
    IN  IF ~EmailVerified(rq) THEN Respond(m, 400, NotVerifiedText)
        ELSE IF originalEmail = NoDoc THEN Respond(m, 404, "Email not found")
        ELSE IF found = {}
        THEN Respond(m, 400, "Recipient email not found or unverified")
        ELSE ReplyFanOut(m, rq, originalEmail, CHOOSE u \in found : TRUE)

\* Mutant: each forwarded copy is filed as not spam whatever the verdict.
ForwardCopyNotSpam(m, c, recipient) ==
    LET m2 == SaveNew(m, [sender |-> c.sender, recipients |-> <<recipient>>,
                          subject |-> c.subject, body |-> c.body,
                          attachments |-> c.attachments, folder |-> "inbox",
                          isSpam |-> FALSE, labels |-> {}], c.now)
    IN  IF m.thrown THEN m
        ELSE EmitCaught(m2, recipient,
                        [sender |-> c.sender, subject |-> c.subject,
                         sentAt |-> c.now, isSpam |-> c.isSpam])

\* One iteration of the forward handler's for (const recipient of recipients).
ForwardCopy(m, c, recipient) ==
    LET recipientUser == FindUser(c.directory, c.recipientUsers, recipient)
        m1 == IF c.isSpam /\ recipientUser # NoUser
              THEN ensureSpamLabel(m, recipientUser)
              ELSE [m EXCEPT !.ret = NoLabel]
        spamLabel == m1.ret
        m2 == SaveNew(m1, [sender |-> c.sender, recipients |-> <<recipient>>,
                           subject |-> c.subject, body |-> c.body,
                           attachments |-> c.attachments,
                           folder |-> IF c.isSpam THEN "spam" ELSE "inbox",
                           isSpam |-> c.isSpam,
                           labels |-> IF c.isSpam /\ spamLabel # NoLabel
                                      THEN {spamLabel} ELSE {}], c.now)
    IN  IF m.thrown THEN m
        ELSE EmitCaught(m2, recipient,
                        [sender |-> c.sender, subject |-> c.subject,
                         sentAt |-> c.now, isSpam |-> c.isSpam])

RECURSIVE ForwardLoop(_, _, _)
ForwardLoop(m, c, i) ==
    IF i > Len(c.recipients) THEN m
    ELSE ForwardLoop(ForwardCopy(m, c, c.recipients[i]), c, i + 1)

\* Mutant: the new attachments come before the original's.
ForwardFanOutNewFirst(m, rq, originalEmail, recipientUsers) ==
    LET sender == users[rq.user].email
        subject == <<FwdPrefix>> \o originalEmail.subject
        body == (rq.body \o <<ForwardSeparator>>) \o originalEmail.body
        attachments == rq.files \o originalEmail.attachments
        forwardEmail == NewEmail([sender |-> sender, recipients |-> rq.recipients,
                                  subject |-> subject, body |-> body,
                                  attachments |-> attachments, folder |-> "sent"],
                                 m.nextId, clock)
        isSpam == detectSpam(forwardEmail, sender, users, rq.dbFault)
        m1 == Classify([m EXCEPT !.nextId = @ + 1], isSpam)
        m2 == SaveDoc(m1, forwardEmail)
        c == [sender |-> sender, recipients |-> rq.recipients, subject |-> subject,
              body |-> body, attachments |-> attachments, isSpam |-> isSpam,
              now |-> clock, directory |-> users, recipientUsers |-> recipientUsers]
        m3 == ForwardLoop(m2, c, 1)
    IN  IF m3.thrown THEN Respond(m3, 500, "Server error")
        ELSE Respond(m3, 200, "Email forwarded successfully")

\* Mutant: the forward handler saves the original with the pushed attachments.
ForwardFanOutSavesOriginal(m, rq, originalEmail, recipientUsers) ==
    LET sender == users[rq.user].email
        subject == <<FwdPrefix>> \o originalEmail.subject
        body == (rq.body \o <<ForwardSeparator>>) \o originalEmail.body
        attachments == originalEmail.attachments \o rq.files
        m0 == [m EXCEPT !.emails = (@ \ {originalEmail})
                            \cup {[originalEmail EXCEPT !.attachments = attachments]}]
        forwardEmail == NewEmail([sender |-> sender, recipients |-> rq.recipients,
                                  subject |-> subject, body |-> body,
                                  attachments |-> attachments, folder |-> "sent"],
                                 m.nextId, clock)
        isSpam == detectSpam(forwardEmail, sender, users, rq.dbFault)
        m1 == Classify([m0 EXCEPT !.nextId = @ + 1], isSpam)
        m2 == SaveDoc(m1, forwardEmail)
        c == [sender |-> sender, recipients |-> rq.recipients, subject |-> subject,
              body |-> body, attachments |-> attachments, isSpam |-> isSpam,
              now |-> clock, directory |-> users, recipientUsers |-> recipientUsers]
        m3 == ForwardLoop(m2, c, 1)
    IN  IF m3.thrown THEN Respond(m3, 500, "Server error")
        ELSE Respond(m3, 200, "Email forwarded successfully")

\* The try block of the forward handler once the original and the recipients
\* are found.
ForwardFanOut(m, rq, originalEmail, recipientUsers) ==
    LET sender == users[rq.user].email
        subject == <<FwdPrefix>> \o originalEmail.subject
        body == (rq.body \o <<ForwardSeparator>>) \o originalEmail.body
        attachments == originalEmail.attachments \o rq.files
        forwardEmail == NewEmail([sender |-> sender, recipients |-> rq.recipients,
                                  subject |-> subject, body |-> body,
                                  attachments |-> attachments, folder |-> "sent"],
                                 m.nextId, clock)
        isSpam == detectSpam(forwardEmail, sender, users, rq.dbFault)
        m1 == Classify([m EXCEPT !.nextId = @ + 1], isSpam)
        m2 == SaveDoc(m1, forwardEmail)
        c == [sender |-> sender, recipients |-> rq.recipients, subject |-> subject,
              body |-> body, attachments |-> attachments, isSpam |-> isSpam,
              now |-> clock, directory |-> users, recipientUsers |-> recipientUsers]
        m3 == ForwardLoop(m2, c, 1)
    IN  IF m3.thrown THEN Respond(m3, 500, "Server error")
        ELSE Respond(m3, 200, "Email forwarded successfully")

\* router.post('/forward/:emailId', ...).
HandleForward(rq) ==
    LET m == Machine(rq)
        originalEmail == FindEmail(emails, rq.emailId)
        recipientUsers == FindVerified(users, Range(rq.recipients))
    IN  IF ~EmailVerified(rq) THEN Respond(m, 400, NotVerifiedText)
        ELSE IF Len(rq.recipients) = 0
        THEN Respond(m, 400, "Recipients are required and must be an array")
        ELSE IF originalEmail = NoDoc THEN Respond(m, 404, "Email not found")
        ELSE IF Cardinality(recipientUsers) # Len(rq.recipients)
        THEN Respond(m, 400, "Some recipients not found or unverified")
        ELSE ForwardFanOut(m, rq, originalEmail, recipientUsers)

-----------------------------------------------------------------------------
(* Drafts, flags, trash, labels of a message, permanent delete *)

\* The $or of the handlers' queries: the user's address is the sender or is in
\* recipients, cc or bcc.
Participant(e, addr) ==
    \/ e.sender = addr
    \/ addr \in Range(e.recipients)
    \/ addr \in Range(e.cc)
    \/ addr \in Range(e.bcc)

\* Email.findOne({ _id: emailId, $or: [...] }).
FindOwnEmail(coll, emailId, addr) ==
    IF \E e \in coll : e.id = emailId /\ Participant(e, addr)
    THEN CHOOSE e \in coll : e.id = emailId /\ Participant(e, addr)
    ELSE NoDoc

\* Email.updateOne({ _id, $or }, update): the collection after the update.
UpdateOwnEmail(coll, emailId, addr, field, value) ==
    {IF e.id = emailId /\ Participant(e, addr) THEN [e EXCEPT ![field] = value] ELSE e :
        e \in coll}

\* router.post('/save-draft', ...).
HandleSaveDraft(rq) ==
    LET m == SaveNew(Machine(rq),
                     [sender |-> users[rq.user].email, recipients |-> rq.recipients,
                      cc |-> rq.cc, bcc |-> rq.bcc, subject |-> rq.subject,
                      body |-> rq.body, attachments |-> rq.files, folder |-> "draft",
                      draftSavedAt |-> clock], clock)
    IN  IF ~EmailVerified(rq) THEN Respond(Machine(rq), 400, NotVerifiedText)
        ELSE IF m.thrown THEN Respond(m, 500, "Server error")
        ELSE Respond(m, 200, "Draft saved successfully")

\* router.patch('/mark-read/:emailId', ...).
HandleMarkRead(rq) ==
    LET m == Machine(rq)
        addr == users[rq.user].email
    IN  IF ~EmailVerified(rq) THEN Respond(m, 400, NotVerifiedText)
        ELSE IF FindOwnEmail(emails, rq.emailId, addr) = NoDoc
        THEN Respond(m, 404, "Email not found or unauthorized")
        ELSE Respond([m EXCEPT !.emails = UpdateOwnEmail(emails, rq.emailId, addr,
                                                         "isRead", rq.flag)],
                     200, "Email read status updated")

\* Mutant: starring files the message under the folder 'starred' of the enum.
HandleStarAsFolder(rq) ==
    LET m == Machine(rq)
        addr == users[rq.user].email
    IN  IF ~EmailVerified(rq) THEN Respond(m, 400, NotVerifiedText)
        ELSE IF FindOwnEmail(emails, rq.emailId, addr) = NoDoc
        THEN Respond(m, 404, "Email not found or you are not authorized to modify it")
        ELSE Respond([m EXCEPT !.emails = UpdateOwnEmail(emails, rq.emailId, addr,
                                                         "folder", "starred")],
                     200, "email")

\* router.patch('/star/:emailId', ...).
HandleStar(rq) ==
    LET m == Machine(rq)
        addr == users[rq.user].email
    IN  IF ~EmailVerified(rq) THEN Respond(m, 400, NotVerifiedText)
        ELSE IF FindOwnEmail(emails, rq.emailId, addr) = NoDoc
        THEN Respond(m, 404, "Email not found or you are not authorized to modify it")
        ELSE Respond([m EXCEPT !.emails = UpdateOwnEmail(emails, rq.emailId, addr,
                                                         "isStarred", rq.flag)],
                     200, "email")

\* router.patch('/move-to-trash/:emailId', ...).
HandleMoveToTrash(rq) ==
    LET m == Machine(rq)
        addr == users[rq.user].email
    IN  IF ~EmailVerified(rq) THEN Respond(m, 400, NotVerifiedText)
        ELSE IF FindOwnEmail(emails, rq.emailId, addr) = NoDoc
        THEN Respond(m, 404, "Email not found or unauthorized")
        ELSE Respond([m EXCEPT !.emails = UpdateOwnEmail(emails, rq.emailId, addr,
                                                         "folder", "trash")],
                     200, "Email moved to trash")

\* router.delete('/:emailId', ...).
HandleDelete(rq) ==
    LET m == Machine(rq)
        addr == users[rq.user].email
        found == FindOwnEmail(emails, rq.emailId, addr)
    IN  IF ~EmailVerified(rq) THEN Respond(m, 400, NotVerifiedText)
        ELSE IF found = NoDoc
        THEN Respond(m, 404, "Email not found or you are not authorized to delete it")
        ELSE Respond([m EXCEPT !.emails = emails \ {found}],
                     200, "Email permanently deleted")

\* Label.findOne({ _id: labelId, userId }).
FindOwnLabel(lbls, labelId, userId) ==
    IF \E l \in lbls : l.id = labelId /\ l.userId = userId
    THEN CHOOSE l \in lbls : l.id = labelId /\ l.userId = userId
    ELSE NoDoc

\* router.patch('/emails/:emailId/labels', ...): rq.action is 'add' or 'remove'.
HandleEmailLabels(rq) ==
    LET m == Machine(rq)
        addr == users[rq.user].email
        email == FindOwnEmail(emails, rq.emailId, addr)
        label == FindOwnLabel(labels, rq.labelId, rq.user)
        changed == IF rq.action = "add"
                   THEN [email EXCEPT !.labels = @ \cup {rq.labelId}]
                   ELSE [email EXCEPT !.labels = @ \ {rq.labelId}]
    IN  IF ~EmailVerified(rq) THEN Respond(m, 400, NotVerifiedText)
        ELSE IF rq.action \notin {"add", "remove"} THEN Respond(m, 400, "Invalid action")
        ELSE IF email = NoDoc THEN Respond(m, 404, "Email not found or unauthorized")
        ELSE IF label = NoDoc THEN Respond(m, 404, "Label not found or unauthorized")
        ELSE Respond([m EXCEPT !.emails = (emails \ {email}) \cup {changed}],
                     200, "Label updated successfully")

-----------------------------------------------------------------------------
(* Label management: the ids of the requests are well-formed ObjectIds *)

\* Label.findOne({ userId, name }).
FindLabelByName(lbls, userId, name) ==
    IF \E l \in lbls : l.userId = userId /\ l.name = name
    THEN CHOOSE l \in lbls :
            /\ l.userId = userId
            /\ l.name = name
            /\ \A k \in lbls : (k.userId = userId /\ k.name = name) => l.id <= k.id
    ELSE NoDoc

\* router.post('/labels', ...).
HandleCreateLabel(rq) ==
    LET m == Machine(rq)
        existingLabel == FindLabelByName(labels, rq.user, rq.name)
        label == [id |-> nextId, userId |-> rq.user, name |-> rq.name,
                  isSystemLabel |-> FALSE]
    IN  IF ~EmailVerified(rq) THEN Respond(m, 400, NotVerifiedText)
        ELSE IF rq.name = "" THEN Respond(m, 400, "Label name is required")
        ELSE IF existingLabel # NoDoc THEN Respond(m, 400, "Label name already exists")
        ELSE Respond([m EXCEPT !.labels = @ \cup {label}, !.nextId = @ + 1],
                     200, "Label created successfully")

\* The modifiedCount of that updateMany.
ModifiedCount(coll, labelId) == Cardinality({e \in coll : labelId \in e.labels})

\* Mutant: the messages keep the id of the deleted label.
PullLabelNothing(coll, labelId) == coll

\* Email.updateMany({ labels: labelId }, { $pull: { labels: labelId } }).
PullLabel(coll, labelId) == {[e EXCEPT !.labels = @ \ {labelId}] : e \in coll}

\* Mutant: the delete handler does not look at isSystemLabel.
HandleDeleteLabelAny(rq) ==
    LET m == Machine(rq)
        label == FindOwnLabel(labels, rq.labelId, rq.user)
    IN  IF label = NoDoc THEN Respond(m, 404, "Label not found or unauthorized")
        ELSE Respond([m EXCEPT !.labels = @ \ {label},
                               !.emails = PullLabel(@, rq.labelId),
                               !.log = Append(@, [ev |-> "pull",
                                                  modified |-> ModifiedCount(emails, rq.labelId)])],
                     200, "Label deleted successfully")

\* router.delete('/labels/:labelId', ...).
HandleDeleteLabel(rq) ==
    LET m == Machine(rq)
        label == FindOwnLabel(labels, rq.labelId, rq.user)
    IN  IF ~EmailVerified(rq) THEN Respond(m, 400, NotVerifiedText)
        ELSE IF label = NoDoc THEN Respond(m, 404, "Label not found or unauthorized")
        ELSE IF label.isSystemLabel THEN Respond(m, 400, "Cannot delete system label")
        ELSE Respond([m EXCEPT !.labels = @ \ {label},
                               !.emails = PullLabel(@, rq.labelId),
                               !.log = Append(@, [ev |-> "pull",
                                                  modified |-> ModifiedCount(emails, rq.labelId)])],
                     200, "Label deleted successfully")

\* router.patch('/labels/:labelId', ...).
HandleRenameLabel(rq) ==
    LET m == Machine(rq)
        label == FindOwnLabel(labels, rq.labelId, rq.user)
    IN  IF ~EmailVerified(rq) THEN Respond(m, 400, NotVerifiedText)
        ELSE IF rq.name = "" THEN Respond(m, 400, "Label name is required")
        ELSE IF label = NoDoc THEN Respond(m, 404, "Label not found or unauthorized")
        ELSE IF label.isSystemLabel THEN Respond(m, 400, "Cannot modify system label")
        ELSE Respond([m EXCEPT !.labels = (@ \ {label})
                                          \cup {[label EXCEPT !.name = rq.name]}],
                     200, "Label updated successfully")

-----------------------------------------------------------------------------
(* POST /auto-reply *)

\* router.post('/auto-reply', ...): rq.message = NoMessage stands for a request
\* without a message, <<t>> for one whose message is the text t.
HandleAutoReply(rq) ==
    LET m == Machine(rq)
        found == FindAutoReply(autoReplies, rq.user)
        created == [id |-> nextId, userId |-> rq.user, enabled |-> rq.enabled,
                    message |-> IF rq.message = NoMessage
                                THEN DefaultAutoReplyMessage ELSE rq.message[1]]
        updated == [found EXCEPT !.enabled = rq.enabled,
                                 !.message = IF rq.message = NoMessage
                                                \/ rq.message[1] = <<>>
                                             THEN found.message ELSE rq.message[1]]
    IN  IF ~EmailVerified(rq) THEN Respond(m, 400, NotVerifiedText)
        ELSE IF found = NoDoc
        THEN Respond([m EXCEPT !.autoReplies = @ \cup {created}, !.nextId = @ + 1],
                     200, "Auto reply settings updated")
        ELSE Respond([m EXCEPT !.autoReplies = (@ \ {found}) \cup {updated}],
                     200, "Auto reply settings updated")

-----------------------------------------------------------------------------
(* Two overlapping calls of Label.ensureSpamLabel *)

Calls == {1, 2}

\* No label request is in flight.
NoLabelCalls == [i \in Calls |-> [pc |-> "idle", rq |-> <<>>, email |-> NoDoc]]

\* No POST /auto-reply request is in progress.
NoConfigs == [i \in Calls |-> [pc |-> "idle", rq |-> <<>>, found |-> NoDoc, at |-> 0]]

\* await this.findOne(...): the call reads the collection; if it finds no Spam
\* label it constructs one (drawing its id) and goes on to save it.
EnsureFind(i) ==
    /\ ens[i].pc = "find"
    /\ LET spamLabel == FindSpamLabel(labels, ens[i].userId)
       IN  IF spamLabel = NoLabel
           THEN /\ ens' = [ens EXCEPT ![i].pc = "save", ![i].newId = nextId]
                /\ nextId' = nextId + 1
           ELSE /\ ens' = [ens EXCEPT ![i].pc = "done", ![i].ret = spamLabel]
                /\ nextId' = nextId
    /\ UNCHANGED <<users, emails, labels, autoReplies, clock, last, nreq, nops, cls, cfg, auth, spent, lab>>

\* await newSpamLabel.save(); return newSpamLabel.
EnsureSave(i) ==
    /\ ens[i].pc = "save"
    /\ labels' = labels \cup {NewSpamLabel(ens[i].newId, ens[i].userId)}
    /\ ens' = [ens EXCEPT ![i].pc = "done", ![i].ret = ens[i].newId]
    /\ UNCHANGED <<users, emails, autoReplies, nextId, clock, last, nreq, nops, cls, cfg, auth, spent, lab>>

\* A request calls Label.ensureSpamLabel(userId).
EnsureCall(i) ==
    /\ ens[i].pc = "idle"
    /\ \E u \in UserIds : ens' = [ens EXCEPT ![i].pc = "find", ![i].userId = u]
    /\ UNCHANGED <<users, emails, labels, autoReplies, nextId, clock, last, nreq, nops, cls, cfg, auth,
                   spent, lab>>

-----------------------------------------------------------------------------
(* Requests *)

\* The address lists of a request: one recipient, two, one per list, an
\* address in two lists, an unknown address in each list in turn, blank entries.
AddressCases ==
    {<< <<"b">>, <<>>, <<>> >>,
     << <<"b", "c">>, <<>>, <<>> >>,
     << <<"b">>, <<"c">>, <<"a">> >>,
     << <<"b">>, <<"b">>, <<>> >>,
     << <<"x">>, <<"x">>, <<>> >>,
     << <<"b">>, <<"x">>, <<"x">> >>,
     << <<"b">>, <<>>, <<"x">> >>,
     << <<Blank>>, <<>>, <<>> >>,
     << <<Blank, "b">>, <<Blank>>, <<>> >>,
     << <<>>, <<>>, <<>> >>}

\* The address lists of the requests of a conversation.
FewAddressCases ==
    {<< <<"b">>, <<>>, <<>> >>,
     << <<"b", "c">>, <<"a">>, <<"c">> >>}

\* The address lists of the sends whose messages the mailbox requests act on.
MailAddressCases ==
    {<< <<"b">>, <<>>, <<>> >>,
     << <<"b">>, <<"c">>, <<>> >>}

Subjects == {<<"Hello">>}
Bodies == {<<"hi">>, <<"Limited Time Offer">>}
FileLists == {<<>>}
MaxFault == 3

\* At most one collaborator fault per request.
Faults == {f \in [save : 0..MaxFault, emit : 0..MaxFault] : f.save = 0 \/ f.emit = 0}

NoFault == {[save |-> 0, emit |-> 0]}

SendMenu(senders, cases, subjects, bodies, faults) ==
    {[user |-> u, recipients |-> a[1], cc |-> a[2], bcc |-> a[3], subject |-> s,
      body |-> b, files |-> fl, saveFault |-> f.save, emitFault |-> f.emit,
      dbFault |-> FALSE, uploadFault |-> 0] :
        u \in senders, a \in cases, s \in subjects, b \in bodies,
        fl \in FileLists, f \in faults}

\* An id that is stored, or one that is not.
EmailIds == {e.id : e \in emails} \cup {nextId}

ReplyMenu(repliers, faults) ==
    {[user |-> u, emailId |-> id, body |-> <<"ok">>, files |-> fl,
      saveFault |-> f.save, emitFault |-> f.emit, dbFault |-> FALSE] :
        u \in repliers, id \in EmailIds, fl \in FileLists, f \in faults}

ForwardLists == {<<"c">>, <<"c", "a">>, <<"x">>, <<>>}

ForwardMenu(forwarders, lists, faults) ==
    {[user |-> u, emailId |-> id, recipients |-> r, body |-> <<>>, files |-> fl,
      saveFault |-> f.save, emitFault |-> f.emit, dbFault |-> FALSE] :
        u \in forwarders, id \in EmailIds, r \in lists, fl \in FileLists, f \in faults}

AutoReplyRequests ==
    {[user |-> u, enabled |-> e, message |-> t, saveFault |-> 0, emitFault |-> 0] :
        u \in UserIds, e \in BOOLEAN,
        t \in {NoMessage, <<(<<"Away">>)>>, <<(<<>>)>>}}

DraftRequests ==
    {[user |-> u, recipients |-> r, cc |-> <<>>, bcc |-> <<>>, subject |-> s,
      body |-> <<"hi">>, files |-> <<>>, saveFault |-> 0, emitFault |-> 0] :
        u \in {"u1"}, r \in {<<>>, <<"b">>}, s \in {<<>>, <<"Hello">>}}

\* The users whose mailbox requests are followed: a recipient, and a user who is
\* a cc address or no party at all.
Actors == {"u2", "u3"}

FlagRequests ==
    {[user |-> u, emailId |-> id, flag |-> f, saveFault |-> 0, emitFault |-> 0] :
        u \in Actors, id \in EmailIds, f \in BOOLEAN}

EmailLabelRequests ==
    {[user |-> u, emailId |-> id, labelId |-> l, action |-> a,
      saveFault |-> 0, emitFault |-> 0] :
        u \in Actors, id \in EmailIds, l \in {x.id : x \in labels},
        a \in {"add", "remove"}}

-----------------------------------------------------------------------------
(* Actions *)

\* What the request left: the collections, and the record of the request (its
\* inputs without the faults, its response, its events).
Commit(op, rq, m) ==
    /\ emails' = m.emails
    /\ labels' = m.labels
    /\ autoReplies' = m.autoReplies
    /\ nextId' = m.nextId
    /\ last' = [op |-> op,
                rq |-> [k \in DOMAIN rq \ {"saveFault", "emitFault", "dbFault",
                                         "uploadFault"} |-> rq[k]],
                response |-> m.response, log |-> m.log]

FanOutRequest(op, rq, m, max) ==
    /\ nreq < max
    /\ Commit(op, rq, m)
    /\ nreq' = nreq + 1
    /\ clock' = clock + 1
    /\ UNCHANGED <<users, nops, ens, cls, cfg, auth, spent, lab>>

MailboxRequest(op, rq, m, max) ==
    /\ nops < max
    /\ Commit(op, rq, m)
    /\ nops' = nops + 1
    /\ clock' = clock + 1
    /\ UNCHANGED <<users, nreq, ens, cls, cfg, auth, spent, lab>>

\* Spec: one sender's send in full.
Send ==
    \E rq \in SendMenu({"u1"}, AddressCases, Subjects \cup {<<>>}, Bodies, Faults) :
        FanOutRequest("send", rq, HandleSend(rq), MaxSends)

ConfigureAutoReply ==
    \E rq \in AutoReplyRequests :
        MailboxRequest("auto-reply", rq, HandleAutoReply(rq), MaxConfigs)

\* SpecFanOut: a conversation of send, reply and forward under faults.
FanSend ==
    \E rq \in SendMenu(UserIds, FewAddressCases, Subjects, Bodies, Faults) :
        FanOutRequest("send", rq, HandleSend(rq), MaxRequests)

Reply ==
    \E rq \in ReplyMenu(UserIds, Faults) : FanOutRequest("reply", rq, HandleReply(rq), MaxRequests)

Forward ==
    \E rq \in ForwardMenu(UserIds, ForwardLists, Faults) :
        FanOutRequest("forward", rq, HandleForward(rq), MaxRequests)

\* SpecMailbox: the life of stored messages.
MailSend ==
    \E rq \in SendMenu({"u1"}, MailAddressCases, Subjects, Bodies, NoFault) :
        FanOutRequest("send", rq, HandleSend(rq), MaxRequests)

MailReply ==
    \E rq \in ReplyMenu({"u2"}, NoFault) : FanOutRequest("reply", rq, HandleReply(rq), MaxRequests)

MailForward ==
    \E rq \in ForwardMenu({"u2"}, {<<"c">>}, NoFault) :
        FanOutRequest("forward", rq, HandleForward(rq), MaxRequests)

SaveDraft ==
    \E rq \in DraftRequests : MailboxRequest("save-draft", rq, HandleSaveDraft(rq), MaxOps)

MarkRead ==
    \E rq \in FlagRequests : MailboxRequest("mark-read", rq, HandleMarkRead(rq), MaxOps)

Star ==
    \E rq \in FlagRequests : MailboxRequest("star", rq, HandleStar(rq), MaxOps)

MoveToTrash ==
    \E rq \in FlagRequests :
        rq.flag /\ MailboxRequest("move-to-trash", rq, HandleMoveToTrash(rq), MaxOps)

Delete ==
    \E rq \in FlagRequests : rq.flag /\ MailboxRequest("delete", rq, HandleDelete(rq), MaxOps)

EmailLabels ==
    \E rq \in EmailLabelRequests :
        MailboxRequest("email-labels", rq, HandleEmailLabels(rq), MaxOps)

-----------------------------------------------------------------------------
(* Specifications *)

Init ==
    /\ users = Directory
    /\ emails = {}
    /\ labels = {}
    /\ autoReplies = {}
    /\ nextId = 1
    /\ clock = 1
    /\ last = [op |-> "none", rq |-> <<>>, response |-> [status |-> 0, text |-> ""],
               log |-> <<>>]
    /\ nreq = 0
    /\ nops = 0
    /\ ens = [i \in Calls |-> [pc |-> "idle", userId |-> NoUser, newId |-> 0, ret |-> NoLabel]]
    /\ cls = NoClassification
    /\ cfg = NoConfigs
    /\ auth = Accounts
    /\ spent = [u \in UserIds |-> {}]
    /\ lab = NoLabelCalls

Next == ConfigureAutoReply \/ Send

Spec == Init /\ [][Next]_vars

NextFanOut == FanSend \/ Reply \/ Forward

SpecFanOut == Init /\ [][NextFanOut]_vars

NextMailbox ==
    \/ MailSend \/ MailReply \/ MailForward \/ SaveDraft \/ MarkRead \/ Star
    \/ MoveToTrash \/ Delete \/ EmailLabels

SpecMailbox == Init /\ [][NextMailbox]_vars

NextEnsure == \E i \in Calls : EnsureCall(i) \/ EnsureFind(i) \/ EnsureSave(i)

SpecEnsure == Init /\ [][NextEnsure]_vars

-----------------------------------------------------------------------------
(* SpecLabels: a user's labels, created, renamed, deleted and put on messages,
   next to the Spam label that a spam delivery creates *)

MaxLabelOps == 3
MaxLabelSends == 1

\* A label id that is stored, or one that is not.
LabelIds == {l.id : l \in labels} \cup {nextId}

CreateLabelRequests ==
    {[user |-> "u2", name |-> n, saveFault |-> 0, emitFault |-> 0] :
        n \in {"", "Work", "Spam"}}

\* The owner of the labels, and another user.
RenameLabelRequests ==
    {[user |-> u, labelId |-> l, name |-> n, saveFault |-> 0, emitFault |-> 0] :
        u \in {"u2", "u3"}, l \in LabelIds, n \in {"", "Work"}}

DeleteLabelRequests ==
    {[user |-> u, labelId |-> l, saveFault |-> 0, emitFault |-> 0] :
        u \in {"u2", "u3"}, l \in LabelIds}

AssignLabelRequests ==
    {[user |-> "u2", emailId |-> id, labelId |-> l, action |-> "add",
      saveFault |-> 0, emitFault |-> 0] :
        id \in {e.id : e \in emails}, l \in {x.id : x \in labels}}

LabelSend ==
    \E rq \in SendMenu({"u1"}, {<< <<"b">>, <<>>, <<>> >>}, Subjects, Bodies, NoFault) :
        FanOutRequest("send", rq, HandleSend(rq), MaxLabelSends)

CreateLabel ==
    \E rq \in CreateLabelRequests :
        MailboxRequest("create-label", rq, HandleCreateLabel(rq), MaxLabelOps)

RenameLabel ==
    \E rq \in RenameLabelRequests :
        MailboxRequest("rename-label", rq, HandleRenameLabel(rq), MaxLabelOps)

DeleteLabel ==
    \E rq \in DeleteLabelRequests :
        MailboxRequest("delete-label", rq, HandleDeleteLabel(rq), MaxLabelOps)

AssignLabel ==
    \E rq \in AssignLabelRequests :
        MailboxRequest("email-labels", rq, HandleEmailLabels(rq), MaxLabelOps)

NextLabels == LabelSend \/ CreateLabel \/ RenameLabel \/ DeleteLabel \/ AssignLabel

SpecLabels == Init /\ [][NextLabels]_vars

-----------------------------------------------------------------------------
(* SpecReply: replies, and replies to replies, to the messages of a sender who
   may have an auto-reply configured *)

MaxReplyRequests == 3
MaxReplyConfigs == 1

\* A subject as typed, and one the user typed with a 'Re: ' in front.
ReplySubjects == {<<"Hello">>, <<RePrefix, "Hello">>}

ReplyConfigure ==
    \E rq \in {r \in AutoReplyRequests : r.user = "u1" /\ r.message = NoMessage} :
        MailboxRequest("auto-reply", rq, HandleAutoReply(rq), MaxReplyConfigs)

ReplySend ==
    \E rq \in SendMenu({"u1"}, {<< <<"b">>, <<>>, <<>> >>}, ReplySubjects, Bodies, NoFault) :
        FanOutRequest("send", rq, HandleSend(rq), MaxReplyRequests)

ReplyReply ==
    \E rq \in ReplyMenu({"u1", "u2", "u3"}, Faults) :
        FanOutRequest("reply", rq, HandleReply(rq), MaxReplyRequests)

NextReply == ReplyConfigure \/ ReplySend \/ ReplyReply

SpecReply == Init /\ [][NextReply]_vars

-----------------------------------------------------------------------------
(* The classifier on its own: one message classified more than once while
   profiles are updated in between *)

MaxInvocations == 2
MaxUpdates == 1

\* n addresses.
Addresses(n) == [i \in 1..n |-> "b"]

\* n links, in either case and scheme.
Links(n) == [i \in 1..n |-> IF i % 2 = 0 THEN "HTTP://L" ELSE "https://l"]

Attachment(size, filename) == [url |-> "u", filename |-> filename, size |-> size]

\* filename <<>> is an attachment stored without a filename.
ClassifiedAttachments ==
    {<<>>,
     <<Attachment(5 * MiB, <<"f", "pdf">>)>>,
     <<Attachment(5 * MiB + 1, <<"f", "pdf">>)>>,
     <<Attachment(1, <<"f", "EXE">>)>>,
     <<Attachment(1, <<"f", "PDF">>)>>,
     <<Attachment(1, <<>>)>>,
     <<Attachment(5 * MiB + 1, <<>>)>>,
     <<Attachment(1, <<"f", "exe">>), Attachment(1, <<>>)>>,
     <<Attachment(1, <<>>), Attachment(1, <<"f", "exe">>)>>}

\* The messages handed to detectSpam: around each rule's threshold.
ClassifiedEmails ==
    {[subject |-> s, body |-> b, recipients |-> Addresses(n), attachments |-> a] :
        s \in {<<"Hello">>, <<"URGENT">>},
        b \in {<<"hi">>, <<"Insurgents">>, Links(5), Links(6),
               Links(5) \o <<"http://">>},
        n \in {1, 10, 11},
        a \in ClassifiedAttachments}

\* The sender addresses: a user's verified address, and one no user has yet.
ClassifiedSenders == {"a", "x"}

\* The addresses a profile update sets.
ProfileEmails == {"d", "x"}

InitClassify ==
    /\ users = Directory
    /\ emails = {}
    /\ labels = {}
    /\ autoReplies = {}
    /\ nextId = 1
    /\ clock = 1
    /\ last = [op |-> "none", rq |-> <<>>, response |-> [status |-> 0, text |-> ""],
               log |-> <<>>]
    /\ nreq = 0
    /\ nops = 0
    /\ ens = [i \in Calls |-> [pc |-> "idle", userId |-> NoUser, newId |-> 0, ret |-> NoLabel]]
    /\ cls \in {[pc |-> "classify", email |-> e, sender |-> s, runs |-> <<>>] :
                    e \in ClassifiedEmails, s \in ClassifiedSenders}
    /\ cfg = NoConfigs
    /\ auth = Accounts
    /\ spent = [u \in UserIds |-> {}]
    /\ lab = NoLabelCalls

\* One call detectSpam(cls.email, cls.sender); its run records what it
\* returned, how its try block ended, and what the Directory held for the
\* sender.
DetectSpamCall ==
    /\ cls.pc = "classify"
    /\ Len(cls.runs) < MaxInvocations
    /\ \E dbFault \in BOOLEAN :
          cls' = [cls EXCEPT !.runs = Append(@,
                    [verdict |-> detectSpam(cls.email, cls.sender, users, dbFault),
                     outcome |-> detectSpamTry(cls.email, cls.sender, users, dbFault),
                     verified |-> \E u \in DOMAIN users :
                                     /\ users[u].email = cls.sender
                                     /\ users[u].isEmailVerified,
                     dbFault |-> dbFault])]
    /\ UNCHANGED <<users, emails, labels, autoReplies, nextId, clock, last, nreq,
                   nops, ens, cfg, auth, spent, lab>>

\* router.post('/update-profile', ...) with an email no other account uses:
\* the pre-save hook marks the new address verified.
UpdateProfile ==
    /\ cls.pc = "classify"
    /\ nops < MaxUpdates
    /\ \E u \in {"u1", "u4"}, email \in ProfileEmails :
          /\ \A v \in DOMAIN users \ {u} : users[v].email # email
          /\ users' = [users EXCEPT ![u] = [email |-> email, isEmailVerified |-> TRUE]]
    /\ nops' = nops + 1
    /\ UNCHANGED <<emails, labels, autoReplies, nextId, clock, last, nreq, ens, cls, cfg, auth, spent, lab>>

NextClassify == DetectSpamCall \/ UpdateProfile

SpecClassify == InitClassify /\ [][NextClassify]_vars

-----------------------------------------------------------------------------
(* SpecForward: messages with attachments are sent, replied to and forwarded
   to lists of every shape while the original sender may change address *)

MaxForwardRequests == 3
MaxProfileUpdates == 1

\* No file, an allowed file, a file the classifier finds suspicious.
OriginalFiles == {<<>>, <<Attachment(10, <<"o", "pdf">>)>>}
NewFiles == {<<>>, <<Attachment(20, <<"n", "png">>)>>, <<Attachment(30, <<"n", "exe">>)>>}

\* One address, two addresses, one address twice, an unknown address alone and
\* after a known one, no address.
ForwardShapes ==
    {<<"c">>, <<"c", "a">>, <<"c", "c">>, <<"x">>, <<"c", "x">>, <<>>}

\* The email field of the update: a free address, one in use, none.
ProfileRequests ==
    {[user |-> "u1", email |-> e, saveFault |-> 0, emitFault |-> 0] :
        e \in {"d", "b", ""}}

\* router.post('/update-profile', ...): the response.
HandleUpdateProfile(rq) ==
    LET m == Machine(rq)
    IN  IF rq.email = "" THEN Respond(m, 400, "Email is required")
        ELSE IF \E v \in DOMAIN users \ {rq.user} : users[v].email = rq.email
        THEN Respond(m, 400, "Email already in use by another account")
        ELSE Respond(m, 200, "Profile updated successfully")

\* user.email = email; user.save(): the pre-save hook marks a modified email
\* verified.
SaveProfile(rq, m) ==
    IF m.response.status # 200 THEN users
    ELSE [users EXCEPT ![rq.user] =
            [email |-> rq.email,
             isEmailVerified |-> IF rq.email # @.email THEN TRUE
                                 ELSE @.isEmailVerified]]

ForwardSend ==
    \E rq \in SendMenu({"u1"}, {<< <<"b">>, <<>>, <<>> >>}, Subjects, {<<"hi">>}, NoFault),
       fl \in OriginalFiles :
        FanOutRequest("send", [rq EXCEPT !.files = fl],
                      HandleSend([rq EXCEPT !.files = fl]), MaxForwardRequests)

ForwardReply ==
    \E rq \in ReplyMenu({"u2"}, NoFault) :
        FanOutRequest("reply", rq, HandleReply(rq), MaxForwardRequests)

ForwardForward ==
    \E rq \in ForwardMenu({"u2"}, ForwardShapes, NoFault), fl \in NewFiles :
        FanOutRequest("forward", [rq EXCEPT !.files = fl],
                      HandleForward([rq EXCEPT !.files = fl]), MaxForwardRequests)

ForwardUpdateProfile ==
    \E rq \in ProfileRequests :
        /\ nops < MaxProfileUpdates
        /\ Commit("update-profile", rq, HandleUpdateProfile(rq))
        /\ users' = SaveProfile(rq, HandleUpdateProfile(rq))
        /\ nops' = nops + 1
        /\ clock' = clock + 1
        /\ UNCHANGED <<nreq, ens, cls, cfg, auth, spent, lab>>

NextForward == ForwardSend \/ ForwardReply \/ ForwardForward \/ ForwardUpdateProfile

SpecForward == Init /\ [][NextForward]_vars

-----------------------------------------------------------------------------
(* SpecStore: every operation that touches a stored message, on the messages
   of one conversation *)

MaxStoreRequests == 2
MaxStoreOps == 3

StoreSend ==
    \E rq \in SendMenu({"u1"}, {<< <<"b">>, <<"c">>, <<>> >>}, Subjects, {<<"hi">>}, NoFault) :
        FanOutRequest("send", [rq EXCEPT !.files = <<Attachment(10, <<"o", "pdf">>)>>],
                      HandleSend([rq EXCEPT !.files = <<Attachment(10, <<"o", "pdf">>)>>]),
                      MaxStoreRequests)

StoreReply ==
    \E rq \in ReplyMenu({"u2"}, NoFault) :
        FanOutRequest("reply", rq, HandleReply(rq), MaxStoreRequests)

StoreForward ==
    \E rq \in ForwardMenu({"u2"}, {<<"c">>}, NoFault) :
        FanOutRequest("forward", [rq EXCEPT !.files = <<Attachment(20, <<"n", "png">>)>>],
                      HandleForward([rq EXCEPT !.files = <<Attachment(20, <<"n", "png">>)>>]),
                      MaxStoreRequests)

StoreMarkRead ==
    \E rq \in {r \in FlagRequests : r.user = "u2"} :
        MailboxRequest("mark-read", rq, HandleMarkRead(rq), MaxStoreOps)

StoreStar ==
    \E rq \in {r \in FlagRequests : r.user = "u2"} :
        MailboxRequest("star", rq, HandleStar(rq), MaxStoreOps)

StoreMoveToTrash ==
    \E rq \in {r \in FlagRequests : r.user = "u2" /\ r.flag} :
        MailboxRequest("move-to-trash", rq, HandleMoveToTrash(rq), MaxStoreOps)

StoreDelete ==
    \E rq \in {r \in FlagRequests : r.user = "u2" /\ r.flag} :
        MailboxRequest("delete", rq, HandleDelete(rq), MaxStoreOps)

StoreCreateLabel ==
    \E rq \in {r \in CreateLabelRequests : r.name = "Work"} :
        MailboxRequest("create-label", rq, HandleCreateLabel(rq), MaxStoreOps)

StoreEmailLabels ==
    \E rq \in {r \in EmailLabelRequests : r.user = "u2"} :
        MailboxRequest("email-labels", rq, HandleEmailLabels(rq), MaxStoreOps)

StoreDeleteLabel ==
    \E rq \in {r \in DeleteLabelRequests : r.user = "u2"} :
        MailboxRequest("delete-label", rq, HandleDeleteLabel(rq), MaxStoreOps)

NextStore ==
    \/ StoreSend \/ StoreReply \/ StoreForward \/ StoreMarkRead \/ StoreStar
    \/ StoreMoveToTrash \/ StoreDelete \/ StoreCreateLabel \/ StoreEmailLabels
    \/ StoreDeleteLabel

SpecStore == Init /\ [][NextStore]_vars

-----------------------------------------------------------------------------
(* SpecConfig: two POST /auto-reply requests of one user that may overlap,
   each in its two awaits, and the sends that user receives *)

MaxConfigSends == 1

\* The requests of the configuring user, with and without a message.
ConfigRequests ==
    {r \in AutoReplyRequests :
        r.user = "u2" /\ r.message \in {NoMessage, <<(<<"Away">>)>>}}

\* The request arrives and passes the middleware.
ConfigCall(i) ==
    /\ cfg[i].pc = "idle"
    /\ \E rq \in ConfigRequests :
          /\ EmailVerified(rq)
          /\ cfg' = [cfg EXCEPT ![i] = [pc |-> "find", rq |-> rq, found |-> NoDoc,
                                        at |-> 0]]
    /\ UNCHANGED <<users, emails, labels, autoReplies, nextId, clock, last, nreq,
                   nops, ens, cls, auth, spent, lab>>

\* await AutoReply.findOne({ userId }): the request holds the document it
\* read, or none.
ConfigFind(i) ==
    /\ cfg[i].pc = "find"
    /\ cfg' = [cfg EXCEPT ![i].pc = "save",
                          ![i].found = FindAutoReply(autoReplies, cfg[i].rq.user)]
    /\ UNCHANGED <<users, emails, labels, autoReplies, nextId, clock, last, nreq,
                   nops, ens, cls, auth, spent, lab>>

\* await autoReply.save(): a document that was not read is inserted (ids are
\* drawn in insertion order, the order findOne reads in); a document that was
\* read is updated by its id in the paths the request modified, that is, the
\* paths whose value differs from the value read.
ConfigSaved(i) ==
    LET rq == cfg[i].rq
        found == cfg[i].found
        created == [id |-> nextId, userId |-> rq.user, enabled |-> rq.enabled,
                    message |-> IF rq.message = NoMessage
                                THEN DefaultAutoReplyMessage ELSE rq.message[1]]
        message == IF rq.message = NoMessage \/ rq.message[1] = <<>>
                   THEN found.message ELSE rq.message[1]
        Update(r) == [r EXCEPT !.enabled = IF rq.enabled # found.enabled
                                            THEN rq.enabled ELSE @,
                               !.message = IF message # found.message
                                            THEN message ELSE @]
    IN  IF found = NoDoc THEN autoReplies \cup {created}
        ELSE {IF r.id = found.id THEN Update(r) ELSE r : r \in autoReplies}

ConfigSave(i) ==
    /\ cfg[i].pc = "save"
    /\ autoReplies' = ConfigSaved(i)
    /\ nextId' = IF cfg[i].found = NoDoc THEN nextId + 1 ELSE nextId
    /\ cfg' = [cfg EXCEPT ![i].pc = "done", ![i].at = clock]
    /\ clock' = clock + 1
    /\ last' = [op |-> "auto-reply",
                rq |-> [k \in DOMAIN cfg[i].rq \ {"saveFault", "emitFault"} |-> cfg[i].rq[k]],
                response |-> [status |-> 200, text |-> "Auto reply settings updated"],
                log |-> <<>>]
    /\ UNCHANGED <<users, emails, labels, nreq, nops, ens, cls, auth, spent, lab>>

\* A message for the configuring user.
ConfigSend ==
    \E rq \in SendMenu({"u1"}, {<< <<"b">>, <<>>, <<>> >>}, Subjects, {<<"hi">>}, NoFault) :
        FanOutRequest("send", rq, HandleSend(rq), MaxConfigSends)

NextConfig ==
    \/ \E i \in Calls : ConfigCall(i) \/ ConfigFind(i) \/ ConfigSave(i)
    \/ ConfigSend

SpecConfig == Init /\ [][NextConfig]_vars

-----------------------------------------------------------------------------
(* SpecAuth: password recovery. forgot-password issues an OTP, reset-password
   spends it, time passes *)

MaxAuthRequests == 3
MaxAuthClock == 5

\* 5 * 60 * 1000 milliseconds, in ticks of the clock.
OtpTtl == 2

Digits == {"0", "1", "2", "3", "4", "5", "6", "7", "8", "9"}
LowerCase == {"a", "b", "c", "d", "e", "f", "g", "h", "l", "p", "s"}
UpperCase == {"A", "B", "O"}
Specials == {"@", "$", "!", "%", "*", "?", "&"}

\* /^\+?[0-9]{10,12}$/.test(phone)
validatePhone(phone) ==
    LET digits == IF Len(phone) > 0 /\ phone[1] = "+" THEN Tail(phone) ELSE phone
    IN  /\ Len(digits) \in 10..12
        /\ \A i \in DOMAIN digits : digits[i] \in Digits

\* password.length >= 8
validatePassword(password) == Len(password) >= 8

\* The strongRegex of checkPasswordStrength: a lower-case letter, an upper-case
\* letter, a digit and a special character, eight or more characters, all of
\* them letters, digits or specials.
checkPasswordStrength(password) ==
    IF /\ \E i \in DOMAIN password : password[i] \in LowerCase
       /\ \E i \in DOMAIN password : password[i] \in UpperCase
       /\ \E i \in DOMAIN password : password[i] \in Digits
       /\ \E i \in DOMAIN password : password[i] \in Specials
       /\ \A i \in DOMAIN password :
             password[i] \in LowerCase \cup UpperCase \cup Digits \cup Specials
       /\ Len(password) >= 8
    THEN "Strong" ELSE "Weak, add uppercase, number, and special character"

\* Date.now() > date: undefined converts to NaN and compares false, null
\* converts to 0.
After(now, date) ==
    CASE date.kind = "undefined" -> FALSE
      [] date.kind = "null" -> now > 0
      [] OTHER -> now > date.at

\* User.findOne({ phone }).
FindByPhone(phone) ==
    IF \E u \in DOMAIN auth : auth[u].phone = phone
    THEN CHOOSE u \in DOMAIN auth : auth[u].phone = phone
    ELSE NoUser

\* The six-digit codes Math.random() draws.
Codes == {"111111", "222222"}

\* A registered verified user, a registered user without email, nobody, and a
\* string that is not a phone number.
AuthPhones == {PhoneOf("u1"), PhoneOf("u4"), Phone("9"), <<"1", "2", "3">>}

StrongPassword == <<"A", "b", "c", "d", "e", "f", "1", "!">>
WeakPassword == <<"a", "b", "c", "d", "e", "f", "g", "h">>
ShortPassword == <<"A", "b", "1", "!">>

ForgotRequests == {[phone |-> p] : p \in AuthPhones}

\* The otp of the request: a code, null, or left out.
ResetRequests ==
    {[phone |-> p, otp |-> o, newPassword |-> n, confirmPassword |-> c] :
        p \in AuthPhones, o \in Codes \cup {Null, Undefined},
        n \in {StrongPassword, WeakPassword, ShortPassword},
        c \in {StrongPassword, WeakPassword}}

\* router.post('/forgot-password', ...): the response and the accounts it
\* leaves; otp is the code drawn.
HandleForgotPassword(rq, otp) ==
    LET user == FindByPhone(rq.phone)
    IN  IF ~validatePhone(rq.phone)
        THEN [response |-> [status |-> 400, text |-> "Invalid phone number"],
              auth |-> auth]
        ELSE IF user = NoUser \/ users[user].email = "" \/ ~users[user].isEmailVerified
        THEN [response |-> [status |-> 404, text |-> "User or verified email not found"],
              auth |-> auth]
        ELSE [response |-> [status |-> 200, text |-> "OTP sent to your email"],
              auth |-> [auth EXCEPT ![user].otp = otp,
                                    ![user].otpExpires = DateAt(clock + OtpTtl)]]

\* router.post('/reset-password', ...).
HandleResetPassword(rq, salt) ==
    LET user == FindByPhone(rq.phone)
    IN  IF ~validatePhone(rq.phone)
        THEN [response |-> [status |-> 400, text |-> "Invalid phone number"],
              auth |-> auth]
        ELSE IF ~validatePassword(rq.newPassword)
        THEN [response |-> [status |-> 400,
                            text |-> "Password must be at least 8 characters"],
              auth |-> auth]
        ELSE IF rq.newPassword # rq.confirmPassword
        THEN [response |-> [status |-> 400, text |-> "Passwords do not match"],
              auth |-> auth]
        ELSE IF checkPasswordStrength(rq.newPassword) # "Strong"
        THEN [response |-> [status |-> 400,
                            text |-> checkPasswordStrength(rq.newPassword)],
              auth |-> auth]
        ELSE IF user = NoUser
        THEN [response |-> [status |-> 404, text |-> "User not found"], auth |-> auth]
        ELSE IF auth[user].otp # rq.otp \/ After(clock, auth[user].otpExpires)
        THEN [response |-> [status |-> 401, text |-> "Invalid or expired OTP"],
              auth |-> auth]
        ELSE [response |-> [status |-> 200, text |-> "Password reset successfully"],
              auth |-> [auth EXCEPT ![user].password = Hash(rq.newPassword, salt),
                                    ![user].otp = Null,
                                    ![user].otpExpires = NullDate]]

AuthRequest(op, rq, r) ==
    /\ nreq < MaxAuthRequests
    /\ auth' = r.auth
    /\ last' = [op |-> op, rq |-> rq, response |-> r.response, log |-> <<>>]
    /\ nreq' = nreq + 1
    /\ UNCHANGED <<users, emails, labels, autoReplies, nextId, clock, nops, ens, cls,
                   cfg, spent, lab>>

ForgotPassword ==
    \E rq \in ForgotRequests, otp \in Codes :
        AuthRequest("forgot-password", rq, HandleForgotPassword(rq, otp))

ResetPassword ==
    \E rq \in ResetRequests :
        AuthRequest("reset-password", rq, HandleResetPassword(rq, nreq + 1))

\* Time passes.
Tick ==
    /\ clock < MaxAuthClock
    /\ clock' = clock + 1
    /\ UNCHANGED <<users, emails, labels, autoReplies, nextId, last, nreq, nops, ens,
                   cls, cfg, auth, spent, lab>>

NextAuth == ForgotPassword \/ ResetPassword \/ Tick

SpecAuth == Init /\ [][NextAuth]_vars

-----------------------------------------------------------------------------
(* SpecLogin: accounts are registered, get an email, switch two-step
   verification on and off, log in and recover their password *)

MaxLoginRequests == 4

\* The body of a successful login or registration: { token }.
TokenText == "token"

\* !otp: undefined, null and the empty string are falsy.
Falsy(otp) == otp \in {Undefined, Null, ""}

\* bcrypt.compare(password, user.password).
Compare(password, hash) == hash.text = password

\* router.post('/register', ...): id is the _id of the new user.
HandleRegister(rq, id, salt) ==
    IF ~validatePhone(rq.phone)
    THEN [response |-> [status |-> 400, text |-> "Invalid phone number"],
          auth |-> auth, users |-> users]
    ELSE IF ~validatePassword(rq.password)
    THEN [response |-> [status |-> 400,
                        text |-> "Password must be at least 8 characters"],
          auth |-> auth, users |-> users]
    ELSE IF rq.password # rq.confirmPassword
    THEN [response |-> [status |-> 400, text |-> "Passwords do not match"],
          auth |-> auth, users |-> users]
    ELSE IF checkPasswordStrength(rq.password) # "Strong"
    THEN [response |-> [status |-> 400, text |-> checkPasswordStrength(rq.password)],
          auth |-> auth, users |-> users]
    ELSE IF FindByPhone(rq.phone) # NoUser
    THEN [response |-> [status |-> 400, text |-> "Phone number already registered"],
          auth |-> auth, users |-> users]
    ELSE [response |-> [status |-> 200, text |-> TokenText],
          auth |-> auth @@ (id :> NewAccount(rq.phone, Hash(rq.password, salt))),
          users |-> users @@ (id :> [email |-> "", isEmailVerified |-> FALSE])]

\* Mutant: two-step verification is switched without looking at the email.
HandleToggle2faUnchecked(rq) ==
    [response |-> [status |-> 200,
                   text |-> "Two-factor authentication has been toggled."],
     auth |-> [auth EXCEPT ![rq.user].twoFactorEnabled = ~@]]

\* router.post('/toggle-2fa', ...).
HandleToggle2fa(rq) ==
    IF users[rq.user].email = "" \/ ~users[rq.user].isEmailVerified
    THEN [response |-> [status |-> 400,
                        text |-> "A verified email is required to enable 2FA."],
          auth |-> auth]
    ELSE [response |-> [status |-> 200,
                        text |-> "Two-factor authentication has been toggled."],
          auth |-> [auth EXCEPT ![rq.user].twoFactorEnabled = ~@]]

\* Mutant: the login handler compares the otp and ignores otpExpires.
HandleLoginNoExpiry(rq, otpCode) ==
    LET user == FindByPhone(rq.phone)
    IN  IF ~validatePhone(rq.phone)
        THEN [response |-> [status |-> 400, text |-> "Invalid phone number"],
              auth |-> auth]
        ELSE IF user = NoUser
        THEN [response |-> [status |-> 404, text |-> "User not found"], auth |-> auth]
        ELSE IF ~Compare(rq.password, auth[user].password)
        THEN [response |-> [status |-> 401, text |-> "Invalid password"],
              auth |-> auth]
        ELSE IF auth[user].twoFactorEnabled /\ Falsy(rq.otp)
        THEN IF users[user].email = ""
             THEN [response |-> [status |-> 400, text |-> "Email required for 2FA"],
                   auth |-> auth]
             ELSE [response |-> [status |-> 200, text |-> "OTP sent to your email"],
                   auth |-> [auth EXCEPT ![user].otp = otpCode,
                                         ![user].otpExpires = DateAt(clock + OtpTtl)]]
        ELSE IF auth[user].twoFactorEnabled /\ rq.otp # auth[user].otp
        THEN [response |-> [status |-> 401, text |-> "Invalid or expired OTP"],
              auth |-> auth]
        ELSE [response |-> [status |-> 200, text |-> TokenText], auth |-> auth]

\* router.post('/login', ...): otpCode is the code drawn if one is issued.
HandleLogin(rq, otpCode) ==
    LET user == FindByPhone(rq.phone)
    IN  IF ~validatePhone(rq.phone)
        THEN [response |-> [status |-> 400, text |-> "Invalid phone number"],
              auth |-> auth]
        ELSE IF user = NoUser
        THEN [response |-> [status |-> 404, text |-> "User not found"], auth |-> auth]
        ELSE IF ~Compare(rq.password, auth[user].password)
        THEN [response |-> [status |-> 401, text |-> "Invalid password"],
              auth |-> auth]
        ELSE IF auth[user].twoFactorEnabled /\ Falsy(rq.otp)
        THEN IF users[user].email = ""
             THEN [response |-> [status |-> 400, text |-> "Email required for 2FA"],
                   auth |-> auth]
             ELSE [response |-> [status |-> 200, text |-> "OTP sent to your email"],
                   auth |-> [auth EXCEPT ![user].otp = otpCode,
                                         ![user].otpExpires = DateAt(clock + OtpTtl)]]
        ELSE IF /\ auth[user].twoFactorEnabled
                /\ (rq.otp # auth[user].otp \/ After(clock, auth[user].otpExpires))
        THEN [response |-> [status |-> 401, text |-> "Invalid or expired OTP"],
              auth |-> auth]
        ELSE [response |-> [status |-> 200, text |-> TokenText], auth |-> auth]

\* The codes that have authorised an operation of the account and were not
\* issued again: a request that succeeds presenting a code spends it, a
\* request that stores a code issues it.
Spend(op, rq, r) ==
    LET user == FindByPhone(rq.phone)
    IN  IF user = NoUser \/ r.response.status # 200 THEN spent
        ELSE IF r.response.text = "OTP sent to your email"
        THEN [spent EXCEPT ![user] = @ \ {r.auth[user].otp}]
        ELSE IF rq.otp \in Codes /\ (op = "reset-password" \/ auth[user].twoFactorEnabled)
        THEN [spent EXCEPT ![user] = @ \cup {rq.otp}]
        ELSE spent

LoginRegisterRequests ==
    {[phone |-> p, password |-> n, confirmPassword |-> StrongPassword] :
        p \in {Phone("1"), Phone("4")}, n \in {StrongPassword, ShortPassword}}

LoginRequests ==
    {[phone |-> p, password |-> n, otp |-> o] :
        p \in {Phone("1"), Phone("4")}, n \in {RegisteredPassword, StrongPassword},
        o \in Codes \cup {Undefined, ""}}

InitLogin ==
    /\ users = [u \in {"u1"} |-> Directory[u]]
    /\ emails = {}
    /\ labels = {}
    /\ autoReplies = {}
    /\ nextId = 1
    /\ clock = 1
    /\ last = [op |-> "none", rq |-> <<>>, response |-> [status |-> 0, text |-> ""],
               log |-> <<>>]
    /\ nreq = 0
    /\ nops = 0
    /\ ens = [i \in Calls |-> [pc |-> "idle", userId |-> NoUser, newId |-> 0, ret |-> NoLabel]]
    /\ cls = NoClassification
    /\ cfg = NoConfigs
    /\ auth = [u \in {"u1"} |-> Accounts[u]]
    /\ spent = [u \in UserIds |-> {}]
    /\ lab = NoLabelCalls

\* A request of SpecLogin: what it leaves in the accounts and the directory.
LoginStep(op, rq, response, auth2, users2, spent2) ==
    /\ nreq < MaxLoginRequests
    /\ auth' = auth2
    /\ users' = users2
    /\ spent' = spent2
    /\ lab' = lab
    /\ last' = [op |-> op, rq |-> rq, response |-> response, log |-> <<>>]
    /\ nreq' = nreq + 1
    /\ UNCHANGED <<emails, labels, autoReplies, nextId, clock, nops, ens, cls, cfg>>

LoginRegister ==
    \E rq \in LoginRegisterRequests :
        LET id == CHOOSE u \in UserIds : u \notin DOMAIN auth /\ PhoneOf(u) = Phone("4")
            r == HandleRegister(rq, id, nreq + 1)
        IN  LoginStep("register", rq, r.response, r.auth, r.users, spent)

LoginUpdateProfile ==
    \E u \in DOMAIN auth, e \in {"d", ""} :
        LET rq == [user |-> u, email |-> e, saveFault |-> 0, emitFault |-> 0]
            m == HandleUpdateProfile(rq)
        IN  LoginStep("update-profile", [user |-> u, email |-> e], m.response, auth,
                      SaveProfile(rq, m), spent)

LoginToggle2fa ==
    \E u \in DOMAIN auth :
        LET rq == [user |-> u]
            r == HandleToggle2fa(rq)
        IN  LoginStep("toggle-2fa", rq, r.response, r.auth, users, spent)

LoginLogin ==
    \E rq \in LoginRequests, otpCode \in Codes :
        LET r == HandleLogin(rq, otpCode)
        IN  LoginStep("login", rq, r.response, r.auth, users, Spend("login", rq, r))

LoginForgotPassword ==
    \E rq \in {[phone |-> Phone("1")]}, otpCode \in Codes :
        LET r == HandleForgotPassword(rq, otpCode)
        IN  LoginStep("forgot-password", rq, r.response, r.auth, users,
                      IF r.response.status = 200
                      THEN [spent EXCEPT ![FindByPhone(rq.phone)] = @ \ {otpCode}]
                      ELSE spent)

LoginResetPassword ==
    \E rq \in {r \in ResetRequests :
                  /\ r.phone = Phone("1")
                  /\ r.otp # Null
                  /\ r.newPassword = StrongPassword
                  /\ r.confirmPassword = StrongPassword} :
        LET r == HandleResetPassword(rq, nreq + 1)
        IN  LoginStep("reset-password", rq, r.response, r.auth, users,
                      Spend("reset-password", rq, r))

NextLogin ==
    \/ LoginRegister \/ LoginUpdateProfile \/ LoginToggle2fa \/ LoginLogin
    \/ LoginForgotPassword \/ LoginResetPassword \/ Tick

SpecLogin == InitLogin /\ [][NextLogin]_vars

-----------------------------------------------------------------------------
(* SpecUpload: sends with attachments while the attachment store may fail *)

MaxUploadSends == 2

\* No file, one file, two files.
UploadFiles ==
    {<<>>,
     <<Attachment(10, <<"o", "pdf">>)>>,
     <<Attachment(10, <<"o", "pdf">>), Attachment(20, <<"n", "png">>)>>}

UploadSend ==
    \E rq \in SendMenu({"u1"}, {<< <<"b">>, <<"c">>, <<>> >>}, Subjects, Bodies, Faults),
       fl \in UploadFiles, k \in 0..2 :
        FanOutRequest("send", [rq EXCEPT !.files = fl, !.uploadFault = k],
                      HandleSend([rq EXCEPT !.files = fl, !.uploadFault = k]),
                      MaxUploadSends)

NextUpload == UploadSend

SpecUpload == Init /\ [][NextUpload]_vars

-----------------------------------------------------------------------------
(* SpecLabelRace: DELETE /labels/:labelId and PATCH /emails/:emailId/labels of
   one user, each in its awaits, so that the two may overlap *)

MaxRaceSends == 1
MaxRaceOps == 1

\* The request of call i has been answered.
RaceRespond(i, op, status, text) ==
    /\ lab' = [lab EXCEPT ![i].pc = "done"]
    /\ last' = [op |-> op,
                rq |-> [k \in DOMAIN lab[i].rq \ {"saveFault", "emitFault"} |-> lab[i].rq[k]],
                response |-> [status |-> status, text |-> text],
                log |-> <<>>]
    /\ clock' = clock + 1

\* A DELETE /labels/:labelId request arrives and passes the middleware.
DeleteCall(i) ==
    /\ lab[i].pc = "idle"
    /\ \E rq \in {r \in DeleteLabelRequests :
                    r.user = "u2" /\ r.labelId \in {x.id : x \in labels}} :
          /\ EmailVerified(rq)
          /\ lab' = [lab EXCEPT ![i] = [pc |-> "d-find", rq |-> rq, email |-> NoDoc]]
    /\ UNCHANGED <<users, emails, labels, autoReplies, nextId, clock, last, nreq,
                   nops, ens, cls, cfg, auth, spent>>

\* await Label.findOne({ _id: labelId, userId }), and the two tests on it.
DeleteFind(i) ==
    LET label == FindOwnLabel(labels, lab[i].rq.labelId, lab[i].rq.user)
    IN  /\ lab[i].pc = "d-find"
        /\ IF label = NoDoc
           THEN RaceRespond(i, "delete-label", 404, "Label not found or unauthorized")
           ELSE IF label.isSystemLabel
           THEN RaceRespond(i, "delete-label", 400, "Cannot delete system label")
           ELSE /\ lab' = [lab EXCEPT ![i].pc = "d-delete"]
                /\ UNCHANGED <<clock, last>>
        /\ UNCHANGED <<users, emails, labels, autoReplies, nextId, nreq,
                       nops, ens, cls, cfg, auth, spent>>

\* await Label.deleteOne({ _id: labelId, userId }), and the test of deletedCount.
DeleteOne(i) ==
    LET label == FindOwnLabel(labels, lab[i].rq.labelId, lab[i].rq.user)
    IN  /\ lab[i].pc = "d-delete"
        /\ IF label = NoDoc
           THEN /\ RaceRespond(i, "delete-label", 404, "Label not found or unauthorized")
                /\ UNCHANGED labels
           ELSE /\ labels' = labels \ {label}
                /\ lab' = [lab EXCEPT ![i].pc = "d-pull"]
                /\ UNCHANGED <<clock, last>>
        /\ UNCHANGED <<users, emails, autoReplies, nextId, nreq,
                       nops, ens, cls, cfg, auth, spent>>

\* await Email.updateMany({ labels: labelId }, { $pull: { labels: labelId } }),
\* then the response.
DeletePull(i) ==
    /\ lab[i].pc = "d-pull"
    /\ emails' = PullLabel(emails, lab[i].rq.labelId)
    /\ RaceRespond(i, "delete-label", 200, "Label deleted successfully")
    /\ UNCHANGED <<users, labels, autoReplies, nextId, nreq,
                   nops, ens, cls, cfg, auth, spent>>

\* A PATCH /emails/:emailId/labels request arrives and passes the middleware
\* and the two tests of its inputs.
AssignCall(i) ==
    /\ lab[i].pc = "idle"
    /\ \E rq \in {r \in EmailLabelRequests :
                    r.user = "u2" /\ r.emailId \in {e.id : e \in emails}} :
          /\ EmailVerified(rq)
          /\ lab' = [lab EXCEPT ![i] = [pc |-> "a-email", rq |-> rq, email |-> NoDoc]]
    /\ UNCHANGED <<users, emails, labels, autoReplies, nextId, clock, last, nreq,
                   nops, ens, cls, cfg, auth, spent>>

\* await Email.findOne({ _id: emailId, $or: [...] }): the request holds the
\* document it read.
AssignFindEmail(i) ==
    LET email == FindOwnEmail(emails, lab[i].rq.emailId, users[lab[i].rq.user].email)
    IN  /\ lab[i].pc = "a-email"
        /\ IF email = NoDoc
           THEN RaceRespond(i, "email-labels", 404, "Email not found or unauthorized")
           ELSE /\ lab' = [lab EXCEPT ![i].pc = "a-label", ![i].email = email]
                /\ UNCHANGED <<clock, last>>
        /\ UNCHANGED <<users, emails, labels, autoReplies, nextId, nreq,
                       nops, ens, cls, cfg, auth, spent>>

\* await Label.findOne({ _id: labelId, userId }).
AssignFindLabel(i) ==
    /\ lab[i].pc = "a-label"
    /\ IF FindOwnLabel(labels, lab[i].rq.labelId, lab[i].rq.user) = NoDoc
       THEN RaceRespond(i, "email-labels", 404, "Label not found or unauthorized")
       ELSE /\ lab' = [lab EXCEPT ![i].pc = "a-save"]
            /\ UNCHANGED <<clock, last>>
    /\ UNCHANGED <<users, emails, labels, autoReplies, nextId, nreq,
                   nops, ens, cls, cfg, auth, spent>>

\* await email.save() on the document read earlier: a push that changed the
\* array read is a $push of the label id on the stored document, a filter that
\* changed it is a $set of the filtered array, and an array left as it was
\* read is not written.
AssignSaved(i) ==
    LET rq == lab[i].rq
        read == lab[i].email
        Update(e) ==
            IF rq.action = "add"
            THEN (IF rq.labelId \in read.labels THEN e
                  ELSE [e EXCEPT !.labels = @ \cup {rq.labelId}])
            ELSE (IF rq.labelId \in read.labels
                  THEN [e EXCEPT !.labels = read.labels \ {rq.labelId}]
                  ELSE e)
    IN  {IF e.id = read.id THEN Update(e) ELSE e : e \in emails}

AssignSave(i) ==
    /\ lab[i].pc = "a-save"
    /\ emails' = AssignSaved(i)
    /\ RaceRespond(i, "email-labels", 200, "Label updated successfully")
    /\ UNCHANGED <<users, labels, autoReplies, nextId, nreq,
                   nops, ens, cls, cfg, auth, spent>>

\* A message for the owner of the labels.
RaceSend ==
    \E rq \in SendMenu({"u1"}, {<< <<"b">>, <<>>, <<>> >>}, Subjects, {<<"hi">>}, NoFault) :
        FanOutRequest("send", rq, HandleSend(rq), MaxRaceSends)

RaceCreateLabel ==
    \E rq \in {r \in CreateLabelRequests : r.name = "Work"} :
        MailboxRequest("create-label", rq, HandleCreateLabel(rq), MaxRaceOps)

NextLabelRace ==
    \/ \E i \in Calls :
          \/ DeleteCall(i) \/ DeleteFind(i) \/ DeleteOne(i) \/ DeletePull(i)
          \/ AssignCall(i) \/ AssignFindEmail(i) \/ AssignFindLabel(i) \/ AssignSave(i)
    \/ RaceSend
    \/ RaceCreateLabel

SpecLabelRace == Init /\ [][NextLabelRace]_vars

-----------------------------------------------------------------------------
(* SpecList: GET /list/:folder after a send *)

MaxListSends == 1
MaxListOps == 2

\* No labelId in the query string.
NoLabelId == 0

ValidFolders == {"inbox", "sent", "draft", "starred", "trash", "spam"}

\* The query the switch builds for the folder, as a test on a document.
ListQuery(e, folder, userEmail) ==
    LET addressed == \/ userEmail \in Range(e.recipients)
                     \/ userEmail \in Range(e.cc)
                     \/ userEmail \in Range(e.bcc)
    IN  CASE folder = "inbox" -> addressed /\ e.folder = "inbox"
          [] folder = "sent" -> e.sender = userEmail /\ e.folder = "sent"
          [] folder = "draft" -> e.sender = userEmail /\ e.folder = "draft"
          [] folder = "trash" -> (e.sender = userEmail \/ addressed) /\ e.folder = "trash"
          [] folder = "starred" -> (e.sender = userEmail \/ addressed) /\ e.isStarred
          [] folder = "spam" -> addressed /\ e.folder = "spam"

\* .select(selectFields).populate('labels', 'name'): the listed form of a
\* document.
Listed(e) ==
    [k \in DOMAIN e \cap {"id", "sender", "recipients", "cc", "bcc", "subject", "sentAt",
                          "draftSavedAt", "isRead", "isStarred", "isSpam", "labels"} |->
        IF k = "labels"
        THEN {[id |-> l.id, name |-> l.name] : l \in {x \in labels : x.id \in e.labels}}
        ELSE e[k]]

\* router.get('/list/:folder', ...) with the default page and limit, which
\* hold every stored message: the response is the array of the matching
\* documents, kept here as a set because the messages of one request have one
\* sentAt.
HandleList(rq) ==
    LET m == Machine(rq)
        found == {e \in emails :
                    /\ ListQuery(e, rq.folder, users[rq.user].email)
                    /\ rq.labelId # NoLabelId => rq.labelId \in e.labels}
    IN  IF ~EmailVerified(rq) THEN Respond(m, 400, NotVerifiedText)
        ELSE IF rq.folder \notin ValidFolders THEN Respond(m, 400, "Invalid folder name")
        ELSE Respond([m EXCEPT !.log = <<[ev |-> "list",
                                          docs |-> {Listed(e) : e \in found}]>>],
                     200, "")

ListRequests ==
    {[user |-> u, folder |-> f, labelId |-> l, saveFault |-> 0, emitFault |-> 0] :
        u \in UserIds, f \in ValidFolders \cup {"archive"},
        l \in {NoLabelId} \cup {x.id : x \in labels}}

\* One send to pairwise distinct addresses.
ListSend ==
    \E rq \in SendMenu({"u1"}, {<< <<"b">>, <<>>, <<>> >>,
                                << <<"b", "c">>, <<>>, <<>> >>,
                                << <<"b">>, <<"c">>, <<>> >>,
                                << <<"b">>, <<>>, <<"c">> >>},
                       Subjects, Bodies, NoFault) :
        FanOutRequest("send", rq, HandleSend(rq), MaxListSends)

ListList ==
    \E rq \in ListRequests : MailboxRequest("list", rq, HandleList(rq), MaxListOps)

NextList == ListSend \/ ListList

SpecList == Init /\ [][NextList]_vars

-----------------------------------------------------------------------------
(* Properties *)

\* The events of the last request.
Events(kind) == {i \in DOMAIN last.log : last.log[i].ev = kind}

\* The documents the last request stored.
Saved == {last.log[i].doc : i \in Events("save")}

Delivered == {d \in Saved : d.folder \in {"inbox", "spam"}}

IsFanOut == last.op \in {"send", "reply", "forward"}

Succeeded == last.response.status = 200

\* The verdict of the last request's classification.
Verdict == last.log[CHOOSE i \in Events("classify") : TRUE].verdict

\* The address lists of the last send, as the handler keeps them.
ToList == FilterAddresses(last.rq.recipients)
CcList == FilterAddresses(last.rq.cc)
BccList == FilterAddresses(last.rq.bcc)
AllAddresses == (ToList \o CcList) \o BccList

PairwiseDistinct(list) == Cardinality(Range(list)) = Len(list)

UserOf(addr) == FindUser(users, DOMAIN users, addr)

\* The messages of the last send that are auto-replies to it.
AutoReplies == {d \in Saved : d.subject = <<AutoReplyPrefix>> \o last.rq.subject}

\* C1 (as stated): every stored message has isSpam = TRUE exactly when its
\* folder is spam.
C1_SpamIffSpamFolder == \A e \in emails : e.isSpam <=> (e.folder = "spam")

\* C1 (amended): a message in the spam folder has isSpam = TRUE, and a message
\* with isSpam = TRUE is in the spam folder or, once moved there, in the trash.
C1_SpamFolderOrTrash ==
    \A e \in emails :
        /\ e.folder = "spam" => e.isSpam
        /\ e.isSpam => e.folder \in {"spam", "trash"}

C1_Witness ==
    /\ last.op = "move-to-trash"
    /\ \E e \in emails : e.isSpam /\ e.folder = "trash"

\* C2: two overlapping ensureSpamLabel calls for one owner leave exactly one
\* Spam system label of that owner, and both return it.
C2_OneSpamLabel ==
    (/\ ens[1].pc = "done"
     /\ ens[2].pc = "done"
     /\ ens[1].userId = ens[2].userId)
    => /\ Cardinality(SpamLabelsOf(labels, ens[1].userId)) = 1
       /\ ens[1].ret = ens[2].ret

\* C3: a successful send to pairwise distinct addresses, none of them a To
\* address with an enabled auto-reply, stores one sent copy and one delivered
\* copy per address, each with the verdict of the send's one classification.
C3_Premise ==
    /\ last.op = "send"
    /\ Succeeded
    /\ PairwiseDistinct(AllAddresses)
    /\ \A r \in autoReplies :
          r.enabled => users[r.userId].email \notin Range(ToList)

C3_SendCopies ==
    C3_Premise =>
        /\ Saved \subseteq emails
        /\ Cardinality({d \in Saved : d.folder = "sent"}) = 1
        /\ Cardinality(Delivered) = (Len(ToList) + Len(CcList)) + Len(BccList)
        /\ Cardinality(Saved) = 1 + Cardinality(Delivered)
        /\ \A a \in Range(AllAddresses) :
              Cardinality({d \in Delivered : d.recipients = <<a>>}) = 1
        /\ Cardinality(Events("classify")) = 1
        /\ \A d \in Delivered : d.isSpam = Verdict

C3_Witness ==
    /\ C3_Premise
    /\ Len(ToList) = 1 /\ Len(CcList) = 1 /\ Len(BccList) = 1
    /\ Cardinality(Delivered) = 3
    /\ Verdict

\* The first of the lists recipients, cc, bcc that holds an address of no
\* verified user, as the error text that names it ("" if there is none).
FirstFailingList ==
    LET bad(list) == \E i \in DOMAIN list : FindVerified(users, {list[i]}) = {}
    IN  IF bad(ToList) THEN "Some recipients not found or unverified"
        ELSE IF bad(CcList) THEN "Some CC recipients not found or unverified"
        ELSE IF bad(BccList) THEN "Some BCC recipients not found or unverified"
        ELSE ""

\* The last request is a send that passed the checks of its shape (recipients
\* left after filtering, a subject, a body).
WellFormedSend ==
    /\ last.op = "send"
    /\ Len(ToList) > 0
    /\ last.rq.subject # <<>>
    /\ last.rq.body # <<>>

\* C4: a send with an address of no verified user in recipients, cc or bcc is
\* refused with the error naming the first such list, and the step that
\* handles it changes no collection and causes no event.
C4_InvalidAddressRefused ==
    [][(nreq' = nreq + 1 /\ WellFormedSend' /\ FirstFailingList' # "")
        => /\ last'.response = [status |-> 400, text |-> FirstFailingList']
           /\ emails' = emails
           /\ labels' = labels
           /\ autoReplies' = autoReplies
           /\ last'.log = <<>>]_vars

C4_Witness ==
    /\ WellFormedSend
    /\ FirstFailingList = "Some BCC recipients not found or unverified"
    /\ last.response.status = 400

\* C5 (as stated): in send and forward a delivered copy whose save fails does
\* not end the fan-out: the request succeeds and every address has its copy.
C5_SaveFaultSkipped ==
    (/\ last.op \in {"send", "forward"}
     /\ \E i \in Events("savefail") : last.log[i].doc.folder \in {"inbox", "spam"})
    => /\ Succeeded
       /\ \A i \in Events("savefail") :
             \A a \in Range(last.rq.recipients) :
                a # last.log[i].doc.recipients[1]
                => \E d \in Delivered : d.recipients = <<a>>

\* C6 (as stated): in send, reply and forward a fault of the notification sink
\* never gives an error response, and the copies of the request are stored.
C6_EmitFaultHarmless ==
    (IsFanOut /\ Events("emiterror") # {})
    => /\ Succeeded
       /\ Saved \subseteq emails

\* C7: every auto-reply of a send is made for a not-spam send, by a To address
\* whose user is verified and has an enabled AutoReply record.
C7_AutoReplyOnlyIf ==
    last.op = "send" =>
        \A d \in AutoReplies :
            /\ ~Verdict
            /\ d.sender \in Range(ToList)
            /\ UserOf(d.sender) # NoUser
            /\ users[UserOf(d.sender)].isEmailVerified
            /\ \E r \in autoReplies : r.userId = UserOf(d.sender) /\ r.enabled

\* A cc address whose user has auto-reply enabled, a send that reached it, and
\* an auto-reply by the To address only.
C7_Witness ==
    /\ last.op = "send"
    /\ Succeeded
    /\ \E a \in Range(CcList) \ Range(ToList) :
          /\ \E r \in autoReplies : r.userId = UserOf(a) /\ r.enabled
          /\ \E d \in Delivered : d.recipients = <<a>>
    /\ AutoReplies # {}

\* The last request is a successful, not-spam send from S to the one address R,
\* and both users have auto-reply enabled.
C8_Premise ==
    /\ last.op = "send"
    /\ Succeeded
    /\ Len(ToList) = 1 /\ CcList = <<>> /\ BccList = <<>>
    /\ Events("classify") # {}
    /\ ~Verdict
    /\ \A a \in {users[last.rq.user].email, ToList[1]} :
          \E r \in autoReplies : r.userId = UserOf(a) /\ r.enabled

\* C8: such a send creates one auto-reply (R's sent copy and S's inbox copy),
\* stores nothing else from S than the two copies of the message itself, and
\* classifies once, before any auto-reply copy is stored.
C8_NoAutoReplyChain ==
    C8_Premise =>
        LET S == users[last.rq.user].email
            R == ToList[1]
        IN  /\ Cardinality({d \in AutoReplies : d.folder = "sent"}) = 1
            /\ Cardinality({d \in AutoReplies : d.folder = "inbox"}) = 1
            /\ \A d \in AutoReplies : d.sender = R /\ d.recipients = <<S>> /\ ~d.isSpam
            /\ \A d \in Saved \ AutoReplies :
                  d.sender = S /\ d.recipients = <<R>> /\ d.subject = last.rq.subject
            /\ Cardinality(Saved) = 4
            /\ Cardinality(Events("classify")) = 1
            /\ \A i \in Events("save") :
                  last.log[i].doc \in AutoReplies
                  => \A j \in Events("classify") : j < i

C8_Witness == C8_Premise /\ Cardinality(AutoReplies) = 2

\* The last request is a successful, not-spam send whose To address A has an
\* enabled AutoReply record, handled without a fault of the sink.
C9_Premise(A) ==
    /\ last.op = "send"
    /\ Succeeded
    /\ Events("classify") # {}
    /\ ~Verdict
    /\ Events("emiterror") = {}
    /\ PairwiseDistinct(ToList)
    /\ A \in Range(ToList)
    /\ UserOf(A) # NoUser
    /\ FindAutoReply(autoReplies, UserOf(A)) # NoDoc
    /\ FindAutoReply(autoReplies, UserOf(A)).enabled

C10_SentCopyFirst ==
    IsFanOut =>
        \A i \in Events("save") :
            last.log[i].doc.folder \in {"inbox", "spam"}
            => \E j \in Events("save") :
                  /\ j < i
                  /\ last.log[j].doc.folder = "sent"
                  /\ last.log[j].doc.sender = last.log[i].doc.sender
                  /\ last.log[j].doc.subject = last.log[i].doc.subject
                  /\ last.log[j].doc.body = last.log[i].doc.body

C10_Witness ==
    /\ last.op = "reply"
    /\ Succeeded
    /\ Cardinality(Delivered) = 1

\* The positions in the last request's log where a delivered (inbox or spam)
\* copy was handed to save, stored or not.
DeliveredSaves ==
    {i \in Events("save") \cup Events("savefail") :
        last.log[i].doc.folder \in {"inbox", "spam"}}

\* The positions of the notifications of the request's own message (those of
\* an auto-reply name the replying recipient as sender).
MessageEmits ==
    {i \in Events("emit") : last.log[i].payload.sender = users[last.rq.user].email}

SentCopyFailures ==
    {i \in Events("savefail") :
        /\ last.log[i].doc.folder = "sent"
        /\ last.log[i].doc.sender = users[last.rq.user].email}

\* C12: when the save of the sender's sent copy fails in send, reply or
\* forward, the response is an error, the request stores no copy at all and
\* emits no notification.
C12_SentCopyFaultFatal ==
    (IsFanOut /\ SentCopyFailures # {})
    => /\ last.response.status = 500
       /\ Saved = {}
       /\ Events("emit") \cup Events("emiterror") = {}

C12_Witness ==
    /\ last.op = "reply"
    /\ SentCopyFailures # {}
    /\ Events("classify") # {}

-----------------------------------------------------------------------------
(* Properties of the classifier *)

\* The runs of detectSpam so far.
Runs == IF cls.pc = "classify" THEN Range(cls.runs) ELSE {}

\* Rule 1: the subject or the body contains a listed keyword, in any case.
KeywordRule ==
    \E k \in spamKeywords :
        \E t \in Range(cls.email.subject) \cup Range(cls.email.body) :
            Includes(toLowerCase(t), k)

\* Rule 2: more than 5 http/https URLs in the body.
LinkCount == Cardinality({i \in DOMAIN cls.email.body : IsUrl(toLowerCase(cls.email.body[i]))})

\* Rule 5: an attachment over 5 MiB, or with an extension that is not allowed.
AttachmentRule ==
    \E i \in DOMAIN cls.email.attachments :
        LET att == cls.email.attachments[i]
        IN  \/ att.size > 5 * 1024 * 1024
            \/ /\ att.filename # <<>>
               /\ toLowerCase(att.filename[Len(att.filename)]) \notin {"jpg", "jpeg", "png", "pdf"}

\* C13: a run of detectSpam that met no internal fault returned true exactly
\* when a keyword is present, or the body has more than 5 URLs, or the sender is
\* not a verified user, or there are more than 10 recipients, or an attachment
\* is over 5 MiB or of a disallowed type; so at exactly 5 URLs, 10 recipients
\* and 5 MiB with no other rule matching it returned false.
C13_VerdictIffSomeRule ==
    \A r \in Runs :
        r.outcome # "throw" =>
            (r.verdict <=> \/ KeywordRule
                           \/ LinkCount > 5
                           \/ ~r.verified
                           \/ Len(cls.email.recipients) > 10
                           \/ AttachmentRule)

C13_Witness ==
    \E r \in Runs :
        /\ r.outcome # "throw"
        /\ ~r.verdict
        /\ LinkCount = 5
        /\ Len(cls.email.recipients) = 10
        /\ Len(cls.email.attachments) = 1
        /\ cls.email.attachments[1].size = 5 * 1024 * 1024

\* C14: a run of detectSpam whose try block was left by an exception returned
\* false.
C14_FailsOpen == \A r \in Runs : r.outcome = "throw" => r.verdict = FALSE

C14_Witness ==
    /\ Len(cls.runs) = 2
    /\ cls.runs[1].outcome = "throw"
    /\ cls.runs[1].dbFault
    /\ cls.runs[2].outcome = "throw"
    /\ ~cls.runs[2].dbFault

\* C15 (as stated, for runs that met no internal fault): two runs of detectSpam
\* on the same message and sender returned the same verdict, whatever happened
\* in between.
C15_SameVerdict ==
    \A r1, r2 \in Runs :
        (r1.outcome # "throw" /\ r2.outcome # "throw") => r1.verdict = r2.verdict

\* C15 (amended): two runs of detectSpam on the same message and sender
\* returned the same verdict when the Directory answered the lookup of the
\* sender alike in both: the same verified status, and a fault in both or in
\* neither.
C15_SameVerdictSameDirectory ==
    \A r1, r2 \in Runs :
        (r1.verified = r2.verified /\ r1.dbFault = r2.dbFault)
        => r1.verdict = r2.verdict

C15_Witness ==
    /\ Len(cls.runs) = 2
    /\ nops = 1
    /\ cls.runs[1].verified
    /\ cls.runs[2].verified
    /\ ~cls.runs[1].dbFault
    /\ ~cls.runs[2].dbFault
    /\ cls.runs[1].verdict
    /\ ~KeywordRule
    /\ LinkCount <= 5

-----------------------------------------------------------------------------
(* Properties of the labels *)

\* The delivered copies still in the folder they were delivered to.
DeliveredCopies == {e \in emails : e.folder \in {"inbox", "spam"}}

\* The copy carries the system Spam label of the user it was delivered to.
CarriesSpamLabel(e) ==
    \E l \in SpamLabelsOf(labels, UserOf(e.recipients[1])) : l.id \in e.labels

\* C16 (as stated): a delivered copy carries its addressee's system Spam label
\* exactly when its isSpam is true, at creation and after label assignments
\* and removals.
C16_SpamLabelIffSpam == \A e \in DeliveredCopies : CarriesSpamLabel(e) <=> e.isSpam

\* The spam copies stored for the user.
SpamCopiesOf(u) == {e \in emails : e.isSpam /\ e.recipients = <<users[u].email>>}

\* C17: once a spam copy has been delivered to a user, that user has exactly
\* one system Spam label, however many spam deliveries followed one after the
\* other, and each spam copy a request delivers carries that one label.
C17_SpamLabelReused ==
    /\ \A u \in UserIds :
          SpamCopiesOf(u) # {} => Cardinality(SpamLabelsOf(labels, u)) = 1
    /\ \A d \in Delivered :
          d.isSpam => d.labels = {FindSpamLabel(labels, UserOf(d.recipients[1]))}

C17_Witness ==
    /\ nreq = 2
    /\ \E e1, e2 \in SpamCopiesOf("u2") : e1.sentAt # e2.sentAt
    /\ Cardinality(SpamLabelsOf(labels, "u2")) = 1

\* C18 (as stated): no user owns two labels with the same name.
C18_UniqueLabelNames ==
    \A l1, l2 \in labels :
        (l1.userId = l2.userId /\ l1.name = l2.name) => l1 = l2

\* The label a rename or delete request names, as stored before the request.
TargetLabels == {l \in labels : l.id = last'.rq.labelId}

\* C19: a rename or delete request naming a system label is answered with an
\* error and leaves the labels and the messages as they were.
C19_SystemLabelProtected ==
    [][(/\ last'.op \in {"rename-label", "delete-label"}
        /\ \E l \in TargetLabels : l.isSystemLabel)
       => /\ last'.response.status \in {400, 404}
          /\ labels' = labels
          /\ emails' = emails]_vars

C19_Witness ==
    /\ last.op = "delete-label"
    /\ last.response.text = "Cannot delete system label"
    /\ \E e \in emails : last.rq.labelId \in e.labels

\* C20: a delete of the requester's own non-system label that is answered with
\* success removes that label and no other, takes its id out of the labels of
\* every message, and deletes or changes nothing else of any message.
C20_DeleteDetaches ==
    [][(/\ last'.op = "delete-label"
        /\ last'.response.status = 200)
       => /\ \E l \in TargetLabels :
                /\ l.userId = last'.rq.user
                /\ ~l.isSystemLabel
                /\ labels' = labels \ {l}
          /\ \A e \in emails' : last'.rq.labelId \notin e.labels
          /\ emails' = {[e EXCEPT !.labels = @ \ {last'.rq.labelId}] : e \in emails}
          /\ Cardinality(emails') = Cardinality(emails)]_vars

C20_Witness ==
    /\ last.op = "delete-label"
    /\ last.response.status = 200
    /\ \E i \in Events("pull") : last.log[i].modified = 1
    /\ Cardinality(emails) = 2

-----------------------------------------------------------------------------
(* Properties of the copies of a send, a reply and a forward *)

\* The address of the user of the last request.
Requester == users[last.rq.user].email

\* The positions in the last request's log where a delivered copy of the
\* request's own message was stored for the address.
CopySaves(addr) ==
    {i \in Events("save") :
        /\ last.log[i].doc.folder \in {"inbox", "spam"}
        /\ last.log[i].doc.sender = Requester
        /\ last.log[i].doc.recipients = <<addr>>}

\* The positions where the request's own message was notified on the channel.
CopyEmits(addr) == {i \in MessageEmits : last.log[i].channel = addr}

\* How many times the address is listed in recipients, cc and bcc together.
Occurrences(addr) == Cardinality({i \in DOMAIN AllAddresses : AllAddresses[i] = addr})

\* C21: a successful send, no notification of which failed, stores for an
\* address listed twice in recipients, cc and bcc two separate copies and emits
\* two notifications on its channel: one per listing.
C21_CopyPerListing ==
    (last.op = "send" /\ Succeeded /\ Events("emiterror") = {})
    => \A addr \in Range(AllAddresses) :
          /\ Cardinality(CopySaves(addr)) = Occurrences(addr)
          /\ Cardinality({last.log[i].doc.id : i \in CopySaves(addr)}) = Occurrences(addr)
          /\ Cardinality(CopyEmits(addr)) = Occurrences(addr)

C21_Witness ==
    /\ last.op = "send"
    /\ Succeeded
    /\ Events("emiterror") = {}
    /\ "b" \in Range(ToList) \cap Range(CcList)
    /\ Cardinality(CopySaves("b")) = 2
    /\ Cardinality(CopyEmits("b")) = 2

\* The delivered copies of the request's own message.
MessageCopies == {d \in Delivered : d.sender = Requester}

\* The sent copy of the request's own message.
SentCopies == {d \in Saved : d.folder = "sent" /\ d.sender = Requester}

\* C22 (as stated): every delivered copy of a send has the recipients, cc and
\* bcc of the sent copy, the full lists of the request.
C22_SameAddressFields ==
    last.op = "send" =>
        \A d \in MessageCopies : \A s \in SentCopies :
            /\ d.recipients = s.recipients
            /\ d.cc = s.cc
            /\ d.bcc = s.bcc

\* C22 (amended): every delivered copy of a send has the cc and bcc of the sent
\* copy, the full lists of the request, and as recipients the one address it is
\* delivered to; the sent copy has the full To list.
C22_SameCcBccOwnRecipient ==
    last.op = "send" =>
        /\ \A s \in SentCopies :
              s.recipients = ToList /\ s.cc = CcList /\ s.bcc = BccList
        /\ \A d \in MessageCopies :
              /\ d.cc = CcList
              /\ d.bcc = BccList
              /\ \E addr \in Range(AllAddresses) : d.recipients = <<addr>>

C22_Witness ==
    /\ last.op = "send"
    /\ Succeeded
    /\ CcList # <<>>
    /\ BccList # <<>>
    /\ Cardinality(MessageCopies) = 3

\* The message a reply or forward request names, as stored.
Original == FindEmail(emails, last.rq.emailId)

\* C23: a successful reply by S to a stored message O stores one sent copy and
\* one delivered copy and nothing else (so no auto-reply, whatever O.sender
\* configured), both from S to [O.sender] with subject 'Re: ' + O.subject, even
\* if that subject begins with 'Re: ' already, and emits one notification, on
\* O.sender's channel.
C23_ReplyCopies ==
    (last.op = "reply" /\ Succeeded)
    => /\ Cardinality(Events("save")) = 2
       /\ Cardinality(SentCopies) = 1
       /\ Cardinality(Delivered) = 1
       /\ \A d \in Saved :
             /\ d.sender = Requester
             /\ d.recipients = <<Original.sender>>
             /\ d.subject = <<RePrefix>> \o Original.subject
       /\ Cardinality(Events("emit")) = 1
       /\ \A i \in Events("emit") : last.log[i].channel = Original.sender
       /\ \A d \in Saved : d.subject[1] # AutoReplyPrefix

C23_Witness ==
    /\ last.op = "reply"
    /\ Succeeded
    /\ Original.subject[1] = RePrefix
    /\ FindAutoReply(autoReplies, UserOf(Original.sender)) # NoDoc
    /\ FindAutoReply(autoReplies, UserOf(Original.sender)).enabled
    /\ \E d \in Delivered : ~d.isSpam

\* C24: a reply or a forward whose original message id is not stored, and a
\* reply to a message whose sender is no longer the address of a verified
\* user, is answered with an error and leaves no message, no label and no
\* event (no save, no notification).
C24_MissingOriginalRejected ==
    [][(/\ nreq' = nreq + 1
        /\ last'.op \in {"reply", "forward"}
        /\ LET originalEmail == FindEmail(emails, last'.rq.emailId)
           IN  \/ originalEmail = NoDoc
               \/ /\ last'.op = "reply"
                  /\ FindVerified(users, {originalEmail.sender}) = {})
       => (/\ last'.response.status \in {400, 404}
           /\ emails' = emails
           /\ labels' = labels
           /\ nextId' = nextId
           /\ last'.log = <<>>)]_vars

\* A reply to a stored message whose sender has moved to another address was
\* rejected.
C24_Witness ==
    /\ last.op = "reply"
    /\ Original # NoDoc
    /\ FindVerified(users, {Original.sender}) = {}
    /\ last.response.status = 400
    /\ last.log = <<>>

\* C25: a forward of a stored message to a non-empty list (a list with a
\* repeated address included) is accepted and fanned out, one copy per
\* listing, when every address of the list is the address of a verified user,
\* and is answered 400 with nothing written when some address is not.
C25_ForwardAllOrNothing ==
    [][(/\ nreq' = nreq + 1
        /\ last'.op = "forward"
        /\ Len(last'.rq.recipients) > 0
        /\ FindEmail(emails, last'.rq.emailId) # NoDoc)
       => LET list == last'.rq.recipients
              saved == {last'.log[i].doc : i \in {j \in DOMAIN last'.log :
                                                    last'.log[j].ev = "save"}}
          IN  IF \A i \in DOMAIN list : FindVerified(users, {list[i]}) # {}
              THEN /\ last'.response.status = 200
                   /\ Cardinality({d \in saved : d.folder # "sent"}) = Len(list)
              ELSE /\ last'.response.status = 400
                   /\ emails' = emails
                   /\ labels' = labels
                   /\ last'.log = <<>>]_vars

\* C26: every copy a forward stores, the sent copy and each delivered copy,
\* has as attachments the original message's attachments followed by the
\* newly supplied ones, and as subject 'Fwd: ' followed by the original
\* subject.
C26_ForwardAttachments ==
    (last.op = "forward" /\ last.response.status = 200)
        => \A d \in Saved :
              /\ d.attachments = Original.attachments \o last.rq.files
              /\ d.subject = <<FwdPrefix>> \o Original.subject

\* A message with an attachment was forwarded to two addresses with a new
\* attachment: three copies were stored.
C26_Witness ==
    /\ last.op = "forward"
    /\ last.response.status = 200
    /\ Len(Original.attachments) = 1
    /\ Len(last.rq.files) = 1
    /\ Original.attachments # last.rq.files
    /\ Cardinality(Saved) = 3

\* C27: a stored message keeps its sender, recipients, cc, bcc, subject, body,
\* attachments and sentAt through every operation (a reply to it, a forward of
\* it with new attachments, mark-read, star, move-to-trash, a label put on it
\* or taken off it, the deletion of a label); it leaves the store only by a
\* permanent delete.
C27_ContentImmutable ==
    [][\A e \in emails :
          IF \E f \in emails' : f.id = e.id
          THEN LET f == FindEmail(emails', e.id)
               IN  /\ f.sender = e.sender
                   /\ f.recipients = e.recipients
                   /\ f.cc = e.cc
                   /\ f.bcc = e.bcc
                   /\ f.subject = e.subject
                   /\ f.body = e.body
                   /\ f.attachments = e.attachments
                   /\ f.sentAt = e.sentAt
          ELSE last'.op = "delete"]_vars

\* A message with an attachment was forwarded with a new attachment and is
\* stored as it was, next to copies that carry both.
C27_Witness ==
    /\ last.op = "forward"
    /\ last.response.status = 200
    /\ Len(Original.attachments) = 1
    /\ \E d \in Saved : Len(d.attachments) = 2

\* The POST /auto-reply request that completed last.
LastCompleted ==
    CHOOSE i \in Calls :
        /\ cfg[i].pc = "done"
        /\ \A j \in Calls : cfg[j].pc = "done" => cfg[j].at <= cfg[i].at

\* C28: whatever the interleaving of a user's POST /auto-reply requests, two
\* overlapping first ones included, the user has at most one AutoReply
\* document, and a send that follows is answered automatically exactly when
\* the request that completed last set enabled to true.
C28_OneAutoReplyLastWriteWins ==
    /\ \A u \in UserIds : Cardinality({r \in autoReplies : r.userId = u}) <= 1
    /\ (/\ last.op = "send"
        /\ last.response.status = 200
        /\ \E i \in Calls : cfg[i].pc = "done")
       => ((AutoReplies # {}) <=> cfg[LastCompleted].rq.enabled)

\* The positions in the log of the documents the last request stored; the
\* first is the sender's own copy.
SaveEvents == Events("save")

\* The last request's message was classified as spam.
VerdictSpam == \E i \in Events("classify") : last.log[i].verdict

\* C29: when a send is classified as spam, every copy it delivers is in the
\* folder spam with isSpam true and carries the Spam label of the user it is
\* delivered to, while the sender's own copy is in the folder sent with isSpam
\* false and no label.
C29_SpamSendCopies ==
    (last.op = "send" /\ VerdictSpam)
        => \A i \in SaveEvents :
              LET d == last.log[i].doc
              IN  IF \A j \in SaveEvents : i <= j
                  THEN d.folder = "sent" /\ ~d.isSpam /\ d.labels = {}
                  ELSE /\ d.folder = "spam"
                       /\ d.isSpam
                       /\ FindSpamLabel(labels, UserOf(d.recipients[1])) # NoLabel
                       /\ d.labels = {FindSpamLabel(labels, UserOf(d.recipients[1]))}

\* A spam send to a To, a cc and a bcc address stored four copies.
C29_Witness ==
    /\ last.op = "send"
    /\ VerdictSpam
    /\ last.response.status = 200
    /\ Cardinality(SaveEvents) = 4
    /\ Cardinality({UserOf(last.log[i].doc.recipients[1]) : i \in SaveEvents}) = 3

-----------------------------------------------------------------------------
(* Properties of password recovery *)

\* C30: a request changes a user's password only if it is a reset-password
\* request, an OTP issued to that user is stored, the otp of the request is
\* that code, and the stored otpExpires is a time that has not passed;
\* whatever the stored otp (never issued, outstanding, cleared by an earlier
\* reset) and whether the request carries an otp or leaves it out.
C30_ResetNeedsOtp ==
    [][\A u \in UserIds :
          auth'[u].password # auth[u].password
              => /\ last'.op = "reset-password"
                 /\ auth[u].otp \in Codes
                 /\ last'.rq.otp = auth[u].otp
                 /\ auth[u].otpExpires.kind = "date"
                 /\ clock <= auth[u].otpExpires.at]_vars

-----------------------------------------------------------------------------
(* Properties of login and two-step verification *)

\* C31: for an account with two-step verification on, a login is answered
\* with a token only when the otp of the request is the stored code and the
\* stored otpExpires has not passed; a login with the right password and no
\* otp gets no token and stores a code that expires five minutes later.
C31_TwoFactorLogin ==
    [][(nreq' = nreq + 1 /\ last'.op = "login")
       => LET user == FindByPhone(last'.rq.phone)
              rq == last'.rq
          IN  (user # NoUser /\ auth[user].twoFactorEnabled)
              => /\ last'.response.text = TokenText
                    => /\ auth[user].otp \in Codes
                       /\ rq.otp = auth[user].otp
                       /\ auth[user].otpExpires.kind = "date"
                       /\ clock <= auth[user].otpExpires.at
                 /\ (Compare(rq.password, auth[user].password) /\ Falsy(rq.otp))
                    => /\ last'.response.text # TokenText
                       /\ auth'[user].otp \in Codes
                       /\ auth'[user].otpExpires = DateAt(clock + OtpTtl)]_vars

\* An account with two-step verification on logged in with the code it was
\* sent.
C31_Witness ==
    /\ last.op = "login"
    /\ last.response.text = TokenText
    /\ last.rq.otp \in Codes
    /\ \E u \in DOMAIN auth :
          /\ auth[u].phone = last.rq.phone
          /\ auth[u].twoFactorEnabled
          /\ auth[u].otp = last.rq.otp

\* C32: whatever the sequence of register, update-profile and toggle-2fa
\* requests, an account with two-step verification on has an email, and the
\* email is verified.
C32_TwoFactorHasVerifiedEmail ==
    \A u \in DOMAIN auth :
        auth[u].twoFactorEnabled => (users[u].email # "" /\ users[u].isEmailVerified)

\* An account registered without email got one and switched two-step
\* verification on.
C32_Witness ==
    /\ "u4" \in DOMAIN auth
    /\ auth["u4"].twoFactorEnabled
    /\ last.op = "toggle-2fa"
    /\ last.rq.user = "u4"

\* C39: a code authorises at most one successful operation: once a login with
\* two-step verification or a reset-password has succeeded with a code, a later
\* login or reset-password presenting that code succeeds only if the code has
\* been issued again in between.
C39_OtpSingleUse ==
    [][(/\ nreq' = nreq + 1
        /\ last'.op \in {"login", "reset-password"}
        /\ last'.response.status = 200
        /\ last'.response.text # "OTP sent to your email"
        /\ last'.rq.otp \in Codes
        /\ FindByPhone(last'.rq.phone) # NoUser
        /\ (last'.op = "login" => auth[FindByPhone(last'.rq.phone)].twoFactorEnabled))
       => last'.rq.otp \notin spent[FindByPhone(last'.rq.phone)]]_vars

-----------------------------------------------------------------------------
(* Properties of the notifications *)

\* The positions in the last request's log where a delivered copy was stored.
StoredCopies == DeliveredSaves \cap Events("save")

\* The notification of the copy stored at position i: the first one after it.
NotificationOf(i) == Min({j \in Events("emit") : j > i})

\* C33: a send, reply or forward whose notifications all go through emits
\* exactly one newEmail per delivered copy, after the copy is stored and before
\* the next copy is, on the channel of the copy's address and with the copy's
\* isSpam; and every newEmail event, the one of an auto-reply included, has
\* the four fields sender, subject, sentAt and isSpam.
C33_NotificationPerCopy ==
    (IsFanOut /\ Events("emiterror") = {})
    => /\ Cardinality(Events("emit")) = Cardinality(StoredCopies)
       /\ \A i \in StoredCopies :
             /\ \E j \in Events("emit") : j > i
             /\ \A k \in StoredCopies : k > i => NotificationOf(i) < k
             /\ last.log[NotificationOf(i)].channel = last.log[i].doc.recipients[1]
       /\ \A j \in Events("emit") :
             DOMAIN last.log[j].payload = {"sender", "subject", "sentAt", "isSpam"}
       /\ \A i \in StoredCopies :
             last.log[NotificationOf(i)].payload.isSpam = last.log[i].doc.isSpam

-----------------------------------------------------------------------------
(* Properties of the attachment uploads *)

\* C34: a send during which the attachment store rejects an upload is answered
\* with an error, and it stores no sent copy and no delivered copy, creates no
\* label and emits no notification.
C34_UploadFaultAborts ==
    [][(/\ nreq' = nreq + 1
        /\ last'.op = "send"
        /\ \E i \in DOMAIN last'.log : last'.log[i].ev = "uploaderror")
       => /\ last'.response.status = 500
          /\ emails' = emails
          /\ labels' = labels
          /\ \A i \in DOMAIN last'.log : last'.log[i].ev \in {"upload", "uploaderror"}]_vars

\* The store took the first file of a send and rejected the second.
C34_Witness ==
    /\ last.op = "send"
    /\ Events("upload") # {}
    /\ Events("uploaderror") # {}
    /\ last.response.status = 500

\* C35: in every reachable state, between the steps of a label deletion and
\* under every interleaving of a deletion with an assignment of the same
\* label included, each label id in a stored message's labels is the id of a
\* stored label.
C35_LabelIdsExist ==
    \A e \in emails : \A l \in e.labels : \E d \in labels : d.id = l

\* No label request is under way.
LabelCallsAtRest == \A i \in Calls : lab[i].pc \in {"idle", "done"}

\* The weaker statement, about the states in which no request is under way.
LabelIdsExistAtRest == LabelCallsAtRest => C35_LabelIdsExist

\* C36: mark-read, star, move-to-trash and permanent delete by a user change
\* or remove only that user's own copies: a copy in sent or draft is touched
\* by its sender only, and a delivered copy (inbox or spam) only by the
\* address that is its one recipient.
C36_OwnCopiesOnly ==
    [][(/\ nops' = nops + 1
        /\ last'.op \in {"mark-read", "star", "move-to-trash", "delete"})
       => \A e \in emails \ emails' :
             /\ e.folder \in {"sent", "draft"} => e.sender = users[last'.rq.user].email
             /\ e.folder \in {"inbox", "spam"}
                   => e.recipients = <<users[last'.rq.user].email>>]_vars

\* C37: a reply or forward request naming a stored message of which the
\* requester is neither the sender nor in recipients, cc or bcc stores no
\* message.
C37_QuoteOnlyParticipants ==
    [][(/\ nreq' = nreq + 1
        /\ last'.op \in {"reply", "forward"}
        /\ FindEmail(emails, last'.rq.emailId) # NoDoc
        /\ ~Participant(FindEmail(emails, last'.rq.emailId),
                        users[last'.rq.user].email))
       => emails' = emails]_vars

\* The sent copy of the one send of SpecList.
TheSend == CHOOSE s \in emails : s.folder = "sent"

\* C38: after one send with pairwise distinct To, CC and BCC addresses, the
\* listing of the inbox folder (of the spam folder when the verdict is spam)
\* for an addressee holds exactly one message, the copy stored for that
\* addressee.
C38_OneCopyListed ==
    (/\ last.op = "list"
     /\ last.response.status = 200
     /\ last.rq.labelId = NoLabelId
     /\ \E s \in emails : s.folder = "sent"
     /\ \E e \in emails : e.folder = last.rq.folder /\ e.folder \in {"inbox", "spam"}
     /\ Requester \in (Range(TheSend.recipients) \cup Range(TheSend.cc))
                        \cup Range(TheSend.bcc))
    => /\ Cardinality(last.log[1].docs) = 1
       /\ \A d \in last.log[1].docs : d.recipients = <<Requester>>

====
